---- MODULE Spec2Model ----
(***************************************************************************)
(* Oracle -> Feishu replication pump.                                      *)
(*                                                                         *)
(* State machine of OracleToFeishuSync.run (sync_oracle_to_feishu.py), the *)
(* CheckpointManager (checkpoint_manager.py), the page reads of            *)
(* OracleDataReader (oracle_reader.py) and the shard management of         *)
(* FeishuClient (feishu_client.py).                                        *)
(*                                                                         *)
(* Representation.                                                         *)
(*  - The source table is the sequence src of sync-column values in the    *)
(*    order ORDER BY sync_column returns them (ascending, NULLs last); a   *)
(*    row is its index in src, a page is a sequence of row indices.        *)
(*  - Python None is Null; a destination table id is the table's position  *)
(*    in the sequence tables; the shard name prefix_NNN is its number NNN. *)
(*  - Wall-clock timestamps are not modelled: last_sync_time is Null or    *)
(*    stamped, history entries carry no timestamp.                         *)
(*  - The rate limiter is modelled on its own, with a clock in ticks; the  *)
(*    client's requests in the other specifications only count its calls.  *)
(***************************************************************************)
EXTENDS Integers, Sequences, FiniteSets, TLC

VARIABLES
    src,                      \* source rows (sync values, ORDER BY order)
    cfg,                      \* run configuration
    disk,                     \* the checkpoint file
    tables,                   \* destination tables (shards)
    ckpt,                     \* CheckpointManager.checkpoint_data
    pc,                       \* position of the process in run()
    full_sync,                \* run(full_sync)
    last_sync_value,          \* local of run()
    total_count,              \* local of run()
    offset,                   \* local of run()
    records,                  \* local of run(): the current page
    chunk_i,                  \* local of run(): i of the write loop
    current_table_sequence,   \* local of run()
    total_synced,             \* local of run()
    current_table_id,         \* FeishuClient.current_table_id
    current_table_row_count,  \* FeishuClient.current_table_row_count
    reads,                    \* history: read_batch calls of the current run
    inserts,                  \* history: insert requests of the current run
    subLog,                   \* history: sub-batches of the last write call
    pageInserted,             \* history: rows inserted since the page was read
    run0,                     \* history: snapshot taken when the run started
    interrupted,              \* history: page pending when the process died
    runs,                     \* number of processes started
    faults,                   \* number of injected I/O errors
    issued,                   \* records handed to the client by direct calls
    calls,                    \* direct calls of the client's write method
    disconnects,              \* disconnect() calls since the reader was built
    committed,                \* history: checkpoint left by the last advance
    lastCall,                 \* history: the last direct call and its result
    limiter                   \* the client's rate limiter and the clock

vars ==
    << src, cfg, disk, tables, ckpt, pc, full_sync, last_sync_value,
       total_count, offset, records, chunk_i, current_table_sequence,
       total_synced, current_table_id, current_table_row_count, reads,
       inserts, subLog, pageInserted, run0, interrupted, runs, faults,
       issued, calls, disconnects, committed, lastCall, limiter >>

----------------------------------------------------------------------------
(* Bounds of the model *)

MaxRows ==
    3

MaxBatch ==
    2

MaxTableRows ==
    1

MaxRuns ==
    2

MaxFaults ==
    1

----------------------------------------------------------------------------
(* Values *)

Null ==
    -1

BATCH_CREATE_LIMIT ==
    500

HISTORY_LIMIT ==
    100

Columns ==
    {"ID", "VAL"}

Min(a, b) ==
    IF a < b THEN a ELSE b

\* Python truthiness of a cursor value: None, 0 and "" are false
Truthy(v) ==
    v # Null /\ v # 0

----------------------------------------------------------------------------
(* Checkpoint store: checkpoint_manager.py *)

_get_default_checkpoint ==
    [ last_sync_time         |-> Null,
      last_sync_value        |-> Null,
      total_records_synced   |-> 0,
      current_table_sequence |-> 1,
      current_table_id       |-> Null,
      last_batch_offset      |-> 0,
      sync_history           |-> << >> ]

AbsentFile ==
    [ state |-> "absent", data |-> _get_default_checkpoint ]

\* CheckpointManager._load: the file's content, defaults if absent or corrupt
_load(file) ==
    IF file.state = "valid" THEN file.data ELSE _get_default_checkpoint

\* CheckpointManager.save, in memory: stamps last_sync_time
SaveData(data) ==
    [ data EXCEPT !.last_sync_time = 1 ]

\* CheckpointManager.save, on disk.  outcome "ok": the file is rewritten;
\* "fail": open() raises and the file is left alone; "torn": the file was
\* truncated by open(.., 'w') and the dump did not complete.
SaveFile(file, data, outcome) ==
    CASE outcome = "ok"   -> [ state |-> "valid", data |-> SaveData(data) ]
      [] outcome = "fail" -> file
      [] OTHER            -> [ state |-> "corrupt",
                               data  |-> _get_default_checkpoint ]

\* the oldest entries are kept
TrimHistoryOldest(h) ==
    IF Len(h) > HISTORY_LIMIT THEN SubSeq(h, 1, HISTORY_LIMIT) ELSE h

\* update_sync_progress, lines 137-139: only the latest 100 entries are kept
TrimHistory(h) ==
    IF Len(h) > HISTORY_LIMIT
    THEN SubSeq(h, Len(h) - HISTORY_LIMIT + 1, Len(h))
    ELSE h

\* the counter is overwritten with the size of the batch
update_sync_progress_overwrite(data, records_synced, last_value, table_id, table_sequence, batch_offset) ==
    [ data EXCEPT
        !.total_records_synced   = records_synced,
        !.last_sync_value        = last_value,
        !.current_table_id       = table_id,
        !.current_table_sequence = table_sequence,
        !.last_batch_offset      = batch_offset,
        !.sync_history           =
            Append(@, [ records_synced |-> records_synced,
                        last_value     |-> last_value,
                        table_id       |-> table_id ]) ]

\* CheckpointManager.update_sync_progress, before save()
update_sync_progress(data, records_synced, last_value, table_id, table_sequence, batch_offset) ==
    [ data EXCEPT
        !.total_records_synced   = @ + records_synced,
        !.last_sync_value        = last_value,
        !.current_table_id       = table_id,
        !.current_table_sequence = table_sequence,
        !.last_batch_offset      = batch_offset,
        !.sync_history           =
            TrimHistory(Append(@, [ records_synced |-> records_synced,
                                    last_value     |-> last_value,
                                    table_id       |-> table_id ])) ]

----------------------------------------------------------------------------
(* Batch reader: oracle_reader.py *)

\* WHERE sync_column > :last_value (a NULL column value never compares true)
RowMatches(tbl, r, sync_column, value) ==
    IF sync_column /\ value # Null
    THEN tbl[r] # Null /\ tbl[r] > value
    ELSE TRUE

RowIds(tbl) ==
    [ r \in 1..Len(tbl) |-> r ]

\* the rows the query selects, in ORDER BY order
Candidates(tbl, sync_column, value) ==
    SelectSeq(RowIds(tbl), LAMBDA r : RowMatches(tbl, r, sync_column, value))

\* OracleDataReader.get_total_count
get_total_count(tbl, sync_column, value) ==
    Len(Candidates(tbl, sync_column, value))

\* OracleDataReader.read_batch: rnum > offset and ROWNUM <= offset + batch_size
read_batch(tbl, batch_size, off, sync_column, value) ==
    LET c == Candidates(tbl, sync_column, value)
    IN  SubSeq(c, off + 1, Min(off + batch_size, Len(c)))

\* ORDER BY order of two sync values: ascending, NULL last
SortsBefore(a, b) ==
    b = Null \/ (a # Null /\ a <= b)

\* the orders in which a query with ORDER BY sync_column may return the rows
\* of the table: the order among rows of equal sync value is the database's
TieOrders(tbl) ==
    { p \in [ 1..Len(tbl) -> 1..Len(tbl) ] :
        /\ \A i \in 1..Len(tbl) : \A j \in 1..Len(tbl) :
               i < j => (p[i] # p[j] /\ SortsBefore(tbl[p[i]], tbl[p[j]])) }

\* the rows the query selects, in the order the database returned them
CandidatesIn(order, tbl, sync_column, value) ==
    SelectSeq(order, LAMBDA r : RowMatches(tbl, r, sync_column, value))

\* OracleDataReader.read_batch on a result in the given order
read_batch_in(order, tbl, batch_size, off, sync_column, value) ==
    SubSeq(CandidatesIn(order, tbl, sync_column, value), off + 1,
           Min(off + batch_size,
               Len(CandidatesIn(order, tbl, sync_column, value))))

----------------------------------------------------------------------------
(* Strings and values of the pure functions                                *)
(*                                                                         *)
(* A data type name as the dictionary reports it is base, precision and    *)
(* zone suffix, e.g. TIMESTAMP(6) WITH TIME ZONE, written in upper case or *)
(* not.  An identifier is a sequence of runs of one character.  A string   *)
(* sample value is a sequence of tokens.  A Python value is a record with  *)
(* its kind.                                                               *)
(***************************************************************************)

TypeName(base, precision, zone, uppercase) ==
    [ base |-> base, precision |-> precision, zone |-> zone,
      uppercase |-> uppercase ]

Plain(base) ==
    TypeName(base, Null, "", TRUE)

\* str.upper()
upper(t) ==
    [ t EXCEPT !.uppercase = TRUE ]

None ==
    [ kind |-> "none" ]

Bool(b) ==
    [ kind |-> "bool", b |-> b ]

IntValue(n) ==
    [ kind |-> "int", v |-> n ]

FloatValue(n) ==
    [ kind |-> "float", v |-> n ]

Str(parts) ==
    [ kind |-> "str", parts |-> parts ]

\* a datetime: microseconds since the epoch and its tzinfo
Datetime(micros, tz) ==
    [ kind |-> "datetime", micros |-> micros, tz |-> tz ]

\* oracle_reader.py, line 21
_DATE_TYPES ==
    { Plain("DATE"), Plain("TIMESTAMP") }

\* characters of an identifier: a letter, a digit, the two symbols, and
\* three characters outside the pattern's classes
IdentifierChars ==
    { "A", "1", "_", "$", ";", " ", "\n" }

\* [a-zA-Z]
IsLetter(c) ==
    c = "A"

\* [a-zA-Z0-9_$]
IsWordChar(c) ==
    c \in { "A", "1", "_", "$" }

RECURSIVE IdentifierLength(_)
IdentifierLength(identifier) ==
    IF Len(identifier) = 0 THEN 0
    ELSE identifier[1].n + IdentifierLength(Tail(identifier))

\* ^[a-zA-Z][a-zA-Z0-9_$]* matches all of the runs
MatchesWholly(identifier) ==
    /\ Len(identifier) > 0
    /\ IsLetter(identifier[1].c)
    /\ \A i \in 1..Len(identifier) : IsWordChar(identifier[i].c)

\* re.match(r'^[a-zA-Z][a-zA-Z0-9_$]*$', identifier): $ matches at the end
\* of the string and before a newline that ends the string
PatternMatches(identifier) ==
    \/ MatchesWholly(identifier)
    \/ /\ Len(identifier) > 1
       /\ identifier[Len(identifier)] = [ c |-> "\n", n |-> 1 ]
       /\ MatchesWholly(SubSeq(identifier, 1, Len(identifier) - 1))

\* _validate_sql_identifier: TRUE, or FALSE when it raises ValueError
_validate_sql_identifier(identifier) ==
    IF ~PatternMatches(identifier) THEN FALSE
    ELSE IF IdentifierLength(identifier) > 30 THEN FALSE
    ELSE TRUE

\* Python floats are IEEE 754 binary64 numbers: a significand of 53 bits
\* and a power of two.  A float is the record [ m, e ]: m the bits of the
\* significand, first the highest, e the exponent of its lowest bit, so
\* that its value is m * 2^e; every operation yields the float nearest to
\* the exact result, the one with an even significand in a tie.
SignificandBits ==
    53

FloatZero ==
    [ m |-> [ i \in 1..SignificandBits |-> 0 ], e |-> 0 ]

\* a / b scaled by a power of two into [1, 2): a * 2^E / b is the quotient
RECURSIVE Normalised(_, _, _)
Normalised(a, b, E) ==
    IF a < b THEN Normalised(2 * a, b, E - 1)
    ELSE IF a >= 2 * b THEN Normalised(a, 2 * b, E + 1)
    ELSE [ a |-> a, b |-> b, E |-> E ]

\* long division: the next n bits of r / b, and what is left
RECURSIVE QuotientBits(_, _, _, _)
QuotientBits(r, b, n, bits) ==
    IF n = 0 THEN [ bits |-> bits, r |-> r ]
    ELSE IF r >= b
         THEN QuotientBits(2 * (r - b), b, n - 1, Append(bits, 1))
         ELSE QuotientBits(2 * r, b, n - 1, Append(bits, 0))

\* the significand plus one unit in its last place
Incremented(bits) ==
    [ i \in 1..Len(bits) |->
        IF \E j \in i + 1..Len(bits) : bits[j] = 0 THEN bits[i]
        ELSE 1 - bits[i] ]

\* the float of a significand of 53 bits followed by the bit round and by
\* more bits that are not all 0 when sticky: round to nearest, ties to even
Rounded(bits, round, sticky, e) ==
    IF round = 0 \/ (~sticky /\ bits[Len(bits)] = 0)
    THEN [ m |-> bits, e |-> e ]
    ELSE IF \A i \in 1..Len(bits) : bits[i] = 1
    THEN [ m |-> [ i \in 1..Len(bits) |-> IF i = 1 THEN 1 ELSE 0 ],
           e |-> e + 1 ]
    ELSE [ m |-> Incremented(bits), e |-> e ]

QuotientRounded(q, b, E) ==
    Rounded(q.bits, IF q.r >= b THEN 1 ELSE 0, q.r # 0 /\ q.r # b,
            E - (SignificandBits - 1))

QuotientOf(n) ==
    QuotientRounded(QuotientBits(n.a, n.b, SignificandBits, << >>), n.b, n.E)

\* a / b for integers a >= 0, b > 0: true division, correctly rounded
FloatDiv(a, b) ==
    IF a = 0 THEN FloatZero ELSE QuotientOf(Normalised(a, b, 0))

\* bit k of the significand, counted from the lowest (k = 0)
BitAt(x, k) ==
    IF k < Len(x.m) THEN x.m[Len(x.m) - k] ELSE 0

\* c times the n lowest bits of x, over 2^n: the whole part, the first bit
\* after it and whether a later bit is 1.  The bits are taken from the
\* lowest, k is the next one; halves is twice the whole part plus the first
\* bit after it of c times the k lowest bits over 2^k, sticky whether a
\* later bit of that is 1
RECURSIVE FractionTimes(_, _, _, _, _, _)
FractionTimes(x, c, n, k, halves, sticky) ==
    IF k = n
    THEN [ q |-> halves \div 2, round |-> halves % 2, sticky |-> sticky ]
    ELSE IF halves % 2 = 1
    THEN FractionTimes(x, c, n, k + 1, halves \div 2 + BitAt(x, k) * c, TRUE)
    ELSE FractionTimes(x, c, n, k + 1, halves \div 2 + BitAt(x, k) * c,
                       sticky)

\* c times the bits of x from 2^0 upwards
RECURSIVE WholeTimes(_, _, _)
WholeTimes(x, c, k) ==
    IF k >= Len(x.m) THEN 0
    ELSE BitAt(x, k) * c + 2 * WholeTimes(x, c, k + 1)

\* a whole part and a fraction rounded to the nearest integer, ties to even
NearestEven(w) ==
    IF w.round = 1 /\ (w.sticky \/ w.q % 2 = 1) THEN w.q + 1 ELSE w.q

\* round(x * c) for a float x with e <= 0 and a small integer c
RoundTimes(x, c) ==
    NearestEven(FractionTimes(x, c, -x.e, 0, 0, FALSE))
        + WholeTimes(x, c, -x.e)

\* datetime.fromtimestamp(x, tz=utc): the microseconds since the epoch,
\* x rounded half-even to the microsecond
fromtimestamp(x) ==
    RoundTimes(x, 1000000)

\* datetime.timestamp() of an aware datetime: (self - epoch).total_seconds(),
\* the microseconds divided by 10^6
timestamp(microseconds) ==
    FloatDiv(microseconds, 1000000)

\* the bits of m * c, first the lowest: carry is what is left to add
RECURSIVE ProductBits(_, _, _, _)
ProductBits(x, c, k, carry) ==
    IF k >= Len(x.m) /\ carry = 0 THEN << >>
    ELSE << (carry + BitAt(x, k) * c) % 2 >> \o
         ProductBits(x, c, k + 1, (carry + BitAt(x, k) * c) \div 2)

\* the bits p, first the lowest, as a float with lowest exponent e: the
\* bits beyond 53 are rounded off
HighBits(p) ==
    [ i \in 1..SignificandBits |-> p[Len(p) + 1 - i] ]

FloatOfBits(p, e) ==
    IF Len(p) <= SignificandBits
    THEN [ m |-> [ i \in 1..Len(p) |-> p[Len(p) + 1 - i] ], e |-> e ]
    ELSE Rounded(HighBits(p), p[Len(p) - SignificandBits],
                 \E i \in 1..Len(p) - SignificandBits - 1 : p[i] = 1,
                 e + Len(p) - SignificandBits)

\* x * c for a float x > 0 and a small integer c, correctly rounded
FloatTimes(x, c) ==
    FloatOfBits(ProductBits(x, c, 0, 0), x.e)

\* int(x): the whole part of a float x >= 0 with e <= 0
RECURSIVE WholePart(_, _)
WholePart(x, k) ==
    IF k >= Len(x.m) THEN 0
    ELSE BitAt(x, k) + 2 * WholePart(x, k + 1)

int(x) ==
    WholePart(x, -x.e)

\* read_batch, line 390: int(value.timestamp() * 1000) of an aware datetime
timestamp_ms_of(microseconds) ==
    int(FloatTimes(timestamp(microseconds), 1000))

\* _convert_timestamp_to_date, lines 162-163: timestamp_ms / 1000, then
\* datetime.fromtimestamp(timestamp_sec, tz=timezone.utc), in microseconds
convert_timestamp_micros(timestamp_ms) ==
    fromtimestamp(FloatDiv(timestamp_ms, 1000))

\* OracleDataReader._convert_timestamp_to_date: milliseconds to a datetime
_convert_timestamp_to_date(timestamp_ms) ==
    Datetime(timestamp_ms * 1000, "UTC")

\* only the two names of _DATE_TYPES count as temporal
is_date_type_exact(column_type) ==
    column_type \in _DATE_TYPES

\* _prepare_sync_value_for_query, line 193; column_type is None when the
\* column is not in the cached schema
is_date_type(column_type) ==
    \/ column_type \in _DATE_TYPES
    \/ /\ column_type # None
       /\ column_type.uppercase
       /\ column_type.base = "TIMESTAMP"

\* OracleDataReader._prepare_sync_value_for_query, on the column's type
_prepare_sync_value_for_query(column_type, value) ==
    IF value = None THEN None
    ELSE IF is_date_type(column_type)
            /\ value.kind \in { "int", "float" }
         THEN _convert_timestamp_to_date(value.v)
         ELSE value

FIELD_TYPE_TEXT ==
    1

FIELD_TYPE_NUMBER ==
    2

FIELD_TYPE_DATE ==
    5

FIELD_TYPE_CHECKBOX ==
    7

\* the tokens of a sample string and their lengths: 2024-01-15, 2024-13-45,
\* 2024-1-5, T, 10:30:00, a blank, garbage
TokenLength(token) ==
    CASE token = "DATE" -> 10
      [] token = "BADDATE" -> 10
      [] token = "SHORTDATE" -> 8
      [] token = "T" -> 1
      [] token = "TIME" -> 8
      [] token = "SPACE" -> 1
      [] OTHER -> 7

Tokens ==
    { "DATE", "BADDATE", "SHORTDATE", "T", "TIME", "SPACE", "WORD" }

\* len(value)
RECURSIVE StrLen(_)
StrLen(parts) ==
    IF Len(parts) = 0 THEN 0
    ELSE TokenLength(parts[1]) + StrLen(Tail(parts))

\* value.split('T')[0]
RECURSIVE BeforeT(_)
BeforeT(parts) ==
    IF Len(parts) = 0 \/ parts[1] = "T" THEN << >>
    ELSE << parts[1] >> \o BeforeT(Tail(parts))

\* datetime.fromisoformat accepts the text; FALSE when it raises ValueError
fromisoformat(parts) ==
    parts \in { << "DATE" >>, << "DATE", "T", "TIME" >>,
                << "DATE", "SPACE", "TIME" >> }

\* FeishuClient._infer_field_type
_infer_field_type(value) ==
    IF value = None THEN FIELD_TYPE_TEXT
    ELSE IF value.kind = "bool" THEN FIELD_TYPE_CHECKBOX
    ELSE IF value.kind \in { "int", "float" } THEN FIELD_TYPE_NUMBER
    ELSE IF value.kind = "str"
         THEN IF StrLen(value.parts) >= 10 /\ fromisoformat(BeforeT(value.parts))
              THEN FIELD_TYPE_DATE
              ELSE FIELD_TYPE_TEXT
    ELSE FIELD_TYPE_TEXT

\* map_oracle_type_to_feishu, lines 455, 459 and 463: the three tuples
NumberTypeNames ==
    { Plain(b) : b \in { "NUMBER", "INTEGER", "FLOAT", "BINARY_FLOAT",
                         "BINARY_DOUBLE", "DECIMAL", "NUMERIC" } }

DateTypeNames ==
    { Plain("DATE"), Plain("TIMESTAMP"), TypeName("TIMESTAMP", 6, "", TRUE),
      TypeName("TIMESTAMP", Null, "WITH TIME ZONE", TRUE),
      TypeName("TIMESTAMP", Null, "WITH LOCAL TIME ZONE", TRUE) }

TextTypeNames ==
    { Plain(b) : b \in { "VARCHAR", "VARCHAR2", "CHAR", "NCHAR", "NVARCHAR2",
                         "CLOB", "NCLOB", "LONG" } }

\* a mapping that looks at the client: every column of an empty shard is text
map_oracle_type_of_shard(oracle_type) ==
    IF current_table_row_count = 0 THEN FIELD_TYPE_TEXT
    ELSE IF upper(oracle_type) \in NumberTypeNames THEN FIELD_TYPE_NUMBER
    ELSE IF upper(oracle_type) \in DateTypeNames THEN FIELD_TYPE_DATE
    ELSE FIELD_TYPE_TEXT

\* FeishuClient.map_oracle_type_to_feishu
map_oracle_type_to_feishu(oracle_type) ==
    IF upper(oracle_type) \in NumberTypeNames THEN FIELD_TYPE_NUMBER
    ELSE IF upper(oracle_type) \in DateTypeNames THEN FIELD_TYPE_DATE
    ELSE IF upper(oracle_type) \in TextTypeNames THEN FIELD_TYPE_TEXT
    ELSE FIELD_TYPE_TEXT

----------------------------------------------------------------------------
(* Destination client: feishu_client.py                                    *)
(*                                                                         *)
(* The client's methods are operators on a record cs:                      *)
(*   tables, tid (current_table_id), cnt (current_table_row_count),        *)
(*   max (max_rows_per_table), seq (current_sequence of the write call),   *)
(*   written (total_written), ret (value returned by the last request),    *)
(*   budget (requests that succeed before one raises, Null: all succeed),  *)
(*   failed (an exception is propagating), ins (insert requests sent),     *)
(*   log (one entry per sub-batch of the write call),                      *)
(*   rl (calls of _apply_rate_limit).                                      *)
(***************************************************************************)

\* the clock counts ticks, TicksPerSecond of them to the second
TicksPerSecond ==
    2

\* FeishuClient.__init__, lines 62 and 74-76, and the clock.  passes is the
\* history of the requests let through: the tracked window each was counted
\* in, the time it passed and the time it slept.
NewLimiter(max_requests_per_second) ==
    [ max_requests_per_second |-> max_requests_per_second,
      _last_request_time      |-> 0,
      _request_count          |-> 0,
      now                     |-> TicksPerSecond,
      passes                  |-> << >> ]

\* _apply_rate_limit, lines 88-90: a second has passed, a new window starts
WindowReset(l, current_time) ==
    IF current_time - l._last_request_time >= TicksPerSecond
    THEN [ l EXCEPT !._request_count = 0, !._last_request_time = current_time ]
    ELSE l

\* the limit is reached one request late
RateLimitReachedLate(count, max_requests_per_second) ==
    count > max_requests_per_second

\* _apply_rate_limit, line 94
RateLimitReached(count, max_requests_per_second) ==
    count >= max_requests_per_second

\* _apply_rate_limit, lines 95-97: time.sleep returns after sleep_time or
\* later (oversleep ticks later)
Slept(l, current_time, oversleep) ==
    IF TicksPerSecond - (current_time - l._last_request_time) > 0
    THEN l._last_request_time + TicksPerSecond + oversleep
    ELSE current_time

\* _apply_rate_limit, lines 94-99: wait for the end of the window
WaitForWindow(l, current_time, oversleep) ==
    IF RateLimitReached(l._request_count, l.max_requests_per_second)
    THEN [ l EXCEPT !._request_count = 0,
                    !._last_request_time = Slept(l, current_time, oversleep),
                    !.now = Slept(l, current_time, oversleep) ]
    ELSE l

\* _apply_rate_limit, line 101: the request is counted and goes out
CountRequest(l, current_time) ==
    [ l EXCEPT !._request_count = @ + 1,
               !.passes = Append(@, [ window |-> l._last_request_time,
                                      at     |-> l.now,
                                      slept  |-> l.now - current_time ]) ]

\* FeishuClient._apply_rate_limit
_apply_rate_limit(l, oversleep) ==
    CountRequest(WaitForWindow(WindowReset(l, l.now), l.now, oversleep),
                 l.now)

\* the fields of a new table: one per column, typed from the source schema
\* (map_oracle_type_to_feishu) or from the sample record (_infer_field_type)
FieldsTyped(typed_by) ==
    { [ field_name |-> c, typed_by |-> typed_by ] : c \in Columns }

FieldNames(fields) ==
    { f.field_name : f \in fields }

NewTable(name, fields) ==
    [ name |-> name, fields |-> fields, rows |-> << >> ]

\* one request to the destination API, after _apply_rate_limit(); the
\* request raises when the budget is used up
ApiRequest(cs) ==
    IF cs.failed THEN cs
    ELSE IF cs.budget = Null THEN [ cs EXCEPT !.rl = @ + 1 ]
    ELSE IF cs.budget = 0 THEN [ cs EXCEPT !.rl = @ + 1, !.failed = TRUE ]
    ELSE [ cs EXCEPT !.rl = @ + 1, !.budget = @ - 1 ]

\* create_table, lines 196-207: the response carries the new table's id
TableCreated(c, name, fields) ==
    IF c.failed THEN c
    ELSE [ c EXCEPT !.tables = Append(@, NewTable(name, fields)),
                    !.ret    = Len(c.tables) + 1 ]

\* FeishuClient.create_table: returns the new table's id in ret
create_table(cs, name, fields) ==
    TableCreated(ApiRequest(cs), name, fields)

\* get_table_row_count, lines 156-162: the response carries the total
RowCountRead(c, table_id) ==
    IF c.failed THEN c
    ELSE [ c EXCEPT !.ret = Len(c.tables[table_id].rows) ]

\* FeishuClient.get_table_row_count
get_table_row_count(cs, table_id) ==
    RowCountRead(ApiRequest(cs), table_id)

\* FeishuClient.create_table_from_oracle_schema: one field per source column
create_table_from_oracle_schema(cs, sequence_number) ==
    create_table(cs, sequence_number, FieldsTyped("schema"))

\* self.current_table_id = <new table>; self.current_table_row_count = 0
SetCurrentTable(c) ==
    IF c.failed THEN c
    ELSE [ c EXCEPT !.tid = c.ret, !.cnt = 0 ]

\* FeishuClient.ensure_table_exists: fields inferred from the sample record
ensure_table_exists(cs, sequence_number) ==
    IF cs.tid = Null
    THEN SetCurrentTable(create_table(cs, sequence_number,
                                      FieldsTyped("sample")))
    ELSE cs

\* FeishuClient.get_or_create_next_table: creates only when the table is full
TableIsFull(cnt, max) ==
    cnt >= max

get_or_create_next_table(cs, sequence_number) ==
    IF TableIsFull(cs.cnt, cs.max)
    THEN SetCurrentTable(create_table(cs, sequence_number,
                                      FieldsTyped("sample")))
    ELSE cs

\* create_fields_if_needed, lines 383-406: the missing fields are added
FieldsAdded(c, table_id) ==
    IF c.failed THEN c
    ELSE [ c EXCEPT !.tables[table_id].fields =
             @ \cup { f \in FieldsTyped("sample") :
                        f.field_name \notin FieldNames(@) } ]

\* FeishuClient.create_fields_if_needed: lists the fields, adds the missing
create_fields_if_needed(cs, table_id) ==
    FieldsAdded(ApiRequest(cs), table_id)

\* batch_create_records, lines 489-521: the records are in the table
RecordsCreated(c, table_id, recs) ==
    IF c.failed THEN c
    ELSE [ c EXCEPT !.tables[table_id].rows = @ \o recs,
                    !.ins = Append(@, [ table |-> table_id,
                                        n     |-> Len(recs),
                                        rows  |-> recs ]) ]

\* an oversize list is cut to the limit and sent
batch_create_records_truncating(cs, table_id, recs) ==
    RecordsCreated(ApiRequest(cs), table_id,
                   SubSeq(recs, 1, Min(Len(recs), BATCH_CREATE_LIMIT)))

\* FeishuClient.batch_create_records
batch_create_records(cs, table_id, recs) ==
    IF Len(recs) > BATCH_CREATE_LIMIT
    THEN [ cs EXCEPT !.failed = TRUE ]
    ELSE RecordsCreated(ApiRequest(cs), table_id, recs)

\* the rotation test with >= for >
RotationNeededGe(cnt, len, max) ==
    cnt + len >= max

\* write_records_with_table_management, line 608: the rotation test
RotationNeeded(cnt, len, max) ==
    cnt + len > max

\* write_records_with_table_management, lines 611-619: the next shard
NextShard(c0, schema) ==
    IF schema
    THEN SetCurrentTable(create_table_from_oracle_schema(c0, c0.seq))
    ELSE get_or_create_next_table(c0, c0.seq)

\* write_records_with_table_management, lines 608-619: rotate if needed
RotateStep(cs, len, schema) ==
    IF RotationNeeded(cs.cnt, len, cs.max)
    THEN NextShard([ cs EXCEPT !.seq = @ + 1 ], schema)
    ELSE cs

\* write_records_with_table_management, lines 622-623: first batch, new table
EnsureFields(c1, i) ==
    IF ~c1.failed /\ (i = 0 \/ c1.cnt = 0)
    THEN create_fields_if_needed(c1, c1.tid)
    ELSE c1

\* the insert leaves out the last record of the sub-batch
InsertBatchShort(c2, batch) ==
    IF c2.failed THEN c2
    ELSE batch_create_records(c2, c2.tid, SubSeq(batch, 1, Len(batch) - 1))

\* write_records_with_table_management, line 626: the insert
InsertBatch(c2, batch) ==
    IF c2.failed THEN c2
    ELSE batch_create_records(c2, c2.tid, batch)

\* write_records_with_table_management, lines 627-628: the counters
CountBatch(c3, len) ==
    IF c3.failed THEN c3
    ELSE [ c3 EXCEPT !.cnt = @ + len, !.written = @ + len ]

\* what one pass of the loop did: cs before, c1 after the rotation step,
\* c2 after the field check, c4 after the insert
Logged(cs, c1, c2, c4, len, schema) ==
    [ c4 EXCEPT !.log =
        Append(@, [ schema   |-> schema,
                    current  |-> cs.tid,
                    pre      |-> cs.cnt,
                    len      |-> len,
                    created  |-> Len(c1.tables) - Len(cs.tables),
                    seqAdded |-> c1.seq - cs.seq,
                    target   |-> c2.tid,
                    shards   |-> Len(c1.tables),
                    done     |-> ~c4.failed ]) ]

AfterFields(cs, c1, c2, batch, schema) ==
    Logged(cs, c1, c2, CountBatch(InsertBatch(c2, batch), Len(batch)),
           Len(batch), schema)

AfterRotation(cs, c1, batch, i, schema) ==
    AfterFields(cs, c1, EnsureFields(c1, i), batch, schema)

\* write_records_with_table_management, lines 605-628: one pass of the loop
SubBatch(cs, batch, i, schema) ==
    AfterRotation(cs, RotateStep(cs, Len(batch), schema), batch, i, schema)

\* write_records_with_table_management, lines 604-628: the sub-batch loop
RECURSIVE SubBatchLoop(_, _, _, _)
SubBatchLoop(cs, recs, i, schema) ==
    IF cs.failed \/ i >= Len(recs) THEN cs
    ELSE SubBatchLoop(
             SubBatch(cs,
                      SubSeq(recs, i + 1,
                             Min(i + BATCH_CREATE_LIMIT, Len(recs))),
                      i, schema),
             recs, i + BATCH_CREATE_LIMIT, schema)

\* a table is created whether or not there is a current one
FirstTableAlways(cs, schema) ==
    IF schema
    THEN SetCurrentTable(create_table_from_oracle_schema(cs, cs.seq))
    ELSE SetCurrentTable(create_table(cs, cs.seq, FieldsTyped("sample")))

\* write_records_with_table_management, lines 588-597: create if none
FirstTable(cs, schema) ==
    IF cs.tid # Null THEN cs
    ELSE IF schema
         THEN SetCurrentTable(create_table_from_oracle_schema(cs, cs.seq))
         ELSE ensure_table_exists(cs, cs.seq)

\* write_records_with_table_management, line 600: the current row count
RowCountSet(c2) ==
    IF c2.failed THEN c2 ELSE [ c2 EXCEPT !.cnt = c2.ret ]

ReadRowCount(c1) ==
    IF c1.failed THEN c1
    ELSE RowCountSet(get_table_row_count(c1, c1.tid))

\* write_records_with_table_management, lines 586-600: the initial table
InitialTable(cs, schema) ==
    ReadRowCount(FirstTable(cs, schema))

\* FeishuClient.write_records_with_table_management
\* result: table_id = tid, sequence = seq, written = written
write_records_with_table_management(cs, recs, table_sequence, schema) ==
    IF Len(recs) = 0
    THEN [ cs EXCEPT !.seq = table_sequence, !.written = 0, !.log = << >> ]
    ELSE SubBatchLoop(
             InitialTable([ cs EXCEPT !.seq = table_sequence, !.written = 0,
                                      !.log = << >> ], schema),
             recs, 0, schema)

\* the client as the write call sees it
ClientState(budget) ==
    [ tables  |-> tables,
      tid     |-> current_table_id,
      cnt     |-> current_table_row_count,
      max     |-> cfg.max_rows_per_table,
      seq     |-> 0,
      written |-> 0,
      ret     |-> 0,
      budget  |-> budget,
      failed  |-> FALSE,
      ins     |-> inserts,
      log     |-> << >>,
      rl      |-> 0 ]

----------------------------------------------------------------------------
(* Replication pump: OracleToFeishuSync.run                                *)

\* run, lines 127 and 161: sync_column if (last_sync_value and not full_sync)
FilterColumn(lsv, fs) ==
    Truthy(lsv) /\ ~fs

\* the cursor is passed on in full mode too
FilterValueKeep(lsv, fs) ==
    lsv

\* run, lines 128 and 162: last_sync_value if not full_sync else None
FilterValue(lsv, fs) ==
    IF fs THEN Null ELSE lsv

\* run, line 170-171: records[i:i + write_batch_size]
WriteBatch(recs, i, write_batch_size) ==
    SubSeq(recs, i + 1, Min(i + write_batch_size, Len(recs)))

\* the write loop is left after its first chunk
PageWrittenEarly(recs, i) ==
    i > 0

\* run, line 170: the write loop is over when i has passed the page
PageWritten(recs, i) ==
    i >= Len(recs)

\* run, line 141-144: the table the client starts the run with
StartTable(checkpoint_table_id, base_table_id) ==
    IF checkpoint_table_id # Null THEN checkpoint_table_id
    ELSE base_table_id

\* rows of the pages a sequence of read_batch calls returned
RECURSIVE RowsOf(_)
RowsOf(rds) ==
    IF Len(rds) = 0 THEN << >>
    ELSE RowsOf(SubSeq(rds, 1, Len(rds) - 1)) \o rds[Len(rds)].rows

NoInterrupt ==
    [ set |-> FALSE, page |-> << >>, earlier |-> << >> ]

\* values the locals of run() have outside a run
LocalsIdle ==
    /\ full_sync' = FALSE
    /\ last_sync_value' = Null
    /\ total_count' = 0
    /\ offset' = 0
    /\ records' = << >>
    /\ chunk_i' = 0
    /\ current_table_sequence' = 1
    /\ total_synced' = 0

\* the reader is disconnected only when the run raised
RunExitOnError(next_pc) ==
    next_pc = "failed"

\* run, lines 220-223: run() is left through the finally clause, after the
\* return of line 134, the end of the loop or a re-raised exception
RunExit(next_pc) ==
    next_pc \in { "done", "failed" }

\* run, lines 220-223: finally, the reader is disconnected
FinallyDisconnect ==
    disconnects' = IF RunExit(pc') THEN disconnects + 1 ELSE disconnects

\* the handler stores a checkpoint without progress
OnRunErrorReset(data) ==
    [ data EXCEPT !.last_sync_value = Null, !.total_records_synced = 0,
                  !.sync_history = << >> ]

\* run, lines 216-218: the handler logs and re-raises; it writes nothing
OnRunError(data) ==
    data

\* save() lets the error of the file write through
SaveRaisesOnError(outcome) ==
    outcome # "ok"

\* save, lines 86-87: except Exception logs the error; nothing is raised
SaveRaises(outcome) ==
    FALSE

\* what the last completed checkpoint write left, in memory and on disk
Committed(data, file) ==
    [ ckpt |-> data, disk |-> file ]

NoCall ==
    [ op |-> "none", n |-> 0, first |-> 0, written |-> 0, failed |-> FALSE,
      rl |-> 0, ins0 |-> 0, table |-> Null, ret |-> Null, arg |-> Null ]

\* the previous process has returned or raised
Ended ==
    pc \in { "done", "failed" }

\* main(): a new process; OracleToFeishuSync.__init__ loads the checkpoint.
\* The previous process has ended, or is killed where it stands.
NewProcess ==
    /\ pc # "idle"
    /\ runs < MaxRuns
    /\ runs' = runs + 1
    /\ ~Ended => faults < MaxFaults
    /\ faults' = IF Ended THEN faults ELSE faults + 1
    /\ ckpt' = _load(disk)
    /\ pc' = "idle"
    /\ interrupted' =
         IF pc = "advance"
         THEN [ set     |-> TRUE,
                page    |-> records,
                earlier |-> RowsOf(SubSeq(reads, 1, Len(reads) - 1)) ]
         ELSE NoInterrupt
    /\ LocalsIdle
    /\ current_table_id' = Null
    /\ current_table_row_count' = 0
    /\ reads' = << >>
    /\ inserts' = << >>
    /\ subLog' = << >>
    /\ pageInserted' = << >>
    /\ disconnects' = 0
    /\ committed' = Committed(_load(disk), disk)
    /\ UNCHANGED << src, cfg, disk, tables, run0, issued, calls, lastCall,
                    limiter >>

\* run, lines 97-103: the checkpoint the run works from
StartCheckpoint(fs) ==
    IF fs THEN SaveData(_get_default_checkpoint) ELSE ckpt

\* run, lines 89-116: clients constructed, connect, reset on full sync
StartRun(fs, outcome) ==
    /\ pc = "idle"
    /\ outcome # "ok" => fs /\ faults < MaxFaults
    /\ faults' = IF outcome = "ok" THEN faults ELSE faults + 1
    /\ full_sync' = fs
    /\ current_table_id' = cfg.base_table_id
    /\ current_table_row_count' = 0
    /\ ckpt' = StartCheckpoint(fs)
    /\ disk' = IF fs THEN SaveFile(disk, _get_default_checkpoint, outcome)
               ELSE disk
    /\ run0' = [ ckpt |-> ckpt, tables |-> tables, disk |-> disk,
                 hist |-> IF fs THEN 0 ELSE Len(ckpt.sync_history),
                 faults |-> faults ]
    /\ committed' = Committed(ckpt', disk')
    /\ pc' = IF fs /\ SaveRaises(outcome) THEN "failed" ELSE "count"
    /\ disconnects' = IF RunExit(pc') THEN 1 ELSE 0
    /\ UNCHANGED << src, cfg, tables, last_sync_value, total_count, offset,
                    records, chunk_i, current_table_sequence, total_synced,
                    reads, inserts, subLog, pageInserted, interrupted, runs,
                    issued, calls, lastCall,
                    limiter >>

\* run, lines 95 and 111: connect() or get_table_schema() raises; the
\* checkpoint is reset (line 103) between the two
StartError(fs, stage) ==
    /\ pc = "idle"
    /\ faults < MaxFaults
    /\ faults' = faults + 1
    /\ full_sync' = fs
    /\ current_table_id' = cfg.base_table_id
    /\ current_table_row_count' = 0
    /\ ckpt' = OnRunError(IF stage = "schema" THEN StartCheckpoint(fs)
                          ELSE ckpt)
    /\ disk' = IF fs /\ stage = "schema"
               THEN SaveFile(disk, _get_default_checkpoint, "ok")
               ELSE disk
    /\ run0' = [ ckpt |-> ckpt, tables |-> tables, disk |-> disk,
                 hist |-> IF fs /\ stage = "schema" THEN 0
                          ELSE Len(ckpt.sync_history),
                 faults |-> faults ]
    /\ committed' = Committed(IF stage = "schema" THEN StartCheckpoint(fs)
                              ELSE ckpt, disk')
    /\ pc' = "failed"
    /\ disconnects' = IF RunExit(pc') THEN 1 ELSE 0
    /\ UNCHANGED << src, cfg, tables, last_sync_value, total_count, offset,
                    records, chunk_i, current_table_sequence, total_synced,
                    reads, inserts, subLog, pageInserted, interrupted, runs,
                    issued, calls, lastCall,
                    limiter >>

\* the loop goes on after the offset has reached the count
LoopContinuesAlways(off, total) ==
    TRUE

\* run, line 152: while offset < total_count
LoopContinues(off, total) ==
    off < total

\* the run takes up the offset the checkpoint recorded
StartOffsetResumed(checkpoint) ==
    checkpoint.last_batch_offset

\* run, line 149: offset = 0, whatever the checkpoint holds
StartOffset(checkpoint) ==
    0

\* the run goes on to the page loop whatever the count
NothingToSyncNever(n) ==
    FALSE

\* run, line 132: if total_count == 0, return
NothingToSync(n) ==
    n = 0

\* run, lines 119-150: count, early return, table tracking
Count ==
    /\ pc = "count"
    /\ LET lsv == ckpt.last_sync_value
           n   == get_total_count(src, FilterColumn(lsv, full_sync),
                                  FilterValue(lsv, full_sync))
       IN  /\ last_sync_value' = lsv
           /\ total_count' = n
           /\ IF NothingToSync(n)
              THEN /\ pc' = "done"
                   /\ UNCHANGED << current_table_sequence, current_table_id,
                                   offset >>
              ELSE /\ pc' = "read"
                   /\ offset' = StartOffset(ckpt)
                   /\ current_table_sequence' = ckpt.current_table_sequence
                   /\ current_table_id' =
                        StartTable(ckpt.current_table_id, cfg.base_table_id)
    /\ UNCHANGED << src, cfg, disk, tables, ckpt, full_sync, records,
                    chunk_i, total_synced, current_table_row_count, reads,
                    inserts, subLog, pageInserted, run0, interrupted, runs,
                    faults, issued, calls, committed, lastCall,
                    limiter >>
    /\ FinallyDisconnect

\* run, lines 152-167: one page read; an empty page ends the loop
ReadPage ==
    /\ pc = "read"
    /\ LET sc   == FilterColumn(last_sync_value, full_sync)
           lv   == FilterValue(last_sync_value, full_sync)
           recs == read_batch(src, cfg.read_batch_size, offset, sc, lv)
       IN  /\ reads' = Append(reads, [ sync_column |-> sc, value |-> lv,
                                       offset |-> offset, rows |-> recs ])
           /\ records' = recs
           /\ pc' = IF Len(recs) = 0 THEN "done" ELSE "write"
    /\ chunk_i' = 0
    /\ pageInserted' = << >>
    /\ UNCHANGED << src, cfg, disk, tables, ckpt, full_sync, last_sync_value,
                    total_count, offset, current_table_sequence, total_synced,
                    current_table_id, current_table_row_count, inserts,
                    subLog, run0, interrupted, runs, faults, issued, calls,
                    committed, lastCall,
                    limiter >>
    /\ FinallyDisconnect

\* run, lines 125 and 156, 216-218: the source query raises
SourceError ==
    /\ pc \in { "count", "read" }
    /\ faults < MaxFaults
    /\ faults' = faults + 1
    /\ pc' = "failed"
    /\ ckpt' = OnRunError(ckpt)
    /\ UNCHANGED << src, cfg, disk, tables, full_sync, last_sync_value,
                    total_count, offset, records, chunk_i,
                    current_table_sequence, total_synced, current_table_id,
                    current_table_row_count, reads, inserts, subLog,
                    pageInserted, run0, interrupted, runs, issued, calls,
                    committed, lastCall,
                    limiter >>
    /\ FinallyDisconnect

\* run, lines 174-184: the write call returned r, or raised
ChunkResult(chunk, r, budget) ==
    /\ budget # Null => r.failed /\ faults < MaxFaults
    /\ faults' = IF r.failed THEN faults + 1 ELSE faults
    /\ tables' = r.tables
    /\ current_table_id' = r.tid
    /\ current_table_row_count' = r.cnt
    /\ inserts' = r.ins
    /\ subLog' = r.log
    /\ pageInserted' = pageInserted \o SubSeq(chunk, 1, r.written)
    /\ IF r.failed
       THEN /\ pc' = "failed"
            /\ ckpt' = OnRunError(ckpt)
            /\ UNCHANGED << current_table_sequence, total_synced, chunk_i >>
       ELSE /\ current_table_sequence' = r.seq
            /\ total_synced' = total_synced + r.written
            /\ chunk_i' = chunk_i + cfg.write_batch_size
            /\ pc' = IF PageWritten(records, chunk_i + cfg.write_batch_size)
                     THEN "advance" ELSE "write"
            /\ ckpt' = ckpt

\* run, lines 170-184: one write chunk of the page
WriteChunk(budget) ==
    /\ pc = "write"
    /\ ChunkResult(WriteBatch(records, chunk_i, cfg.write_batch_size),
                   write_records_with_table_management(
                       ClientState(budget),
                       WriteBatch(records, chunk_i, cfg.write_batch_size),
                       current_table_sequence, TRUE),
                   budget)
    /\ UNCHANGED << src, cfg, disk, full_sync, last_sync_value,
                    total_count, offset, records, reads, run0, interrupted,
                    runs, issued, calls, committed, lastCall,
                    limiter >>
    /\ FinallyDisconnect

\* run, lines 186-198: the checkpoint advance that closes a page
Advance(outcome) ==
    /\ pc = "advance"
    /\ outcome # "ok" => faults < MaxFaults
    /\ faults' = IF outcome = "ok" THEN faults ELSE faults + 1
    /\ LET lv   == src[records[Len(records)]]
           data == update_sync_progress(ckpt, Len(records), lv,
                                        current_table_id,
                                        current_table_sequence,
                                        offset + Len(records))
       IN  /\ last_sync_value' = lv
           /\ ckpt' = SaveData(data)
           /\ disk' = SaveFile(disk, data, outcome)
    /\ offset' = offset + Len(records)
    /\ pc' = IF SaveRaises(outcome) THEN "failed"
             ELSE IF LoopContinues(offset + Len(records), total_count)
                  THEN "read"
             ELSE "done"
    /\ committed' = Committed(ckpt', disk')
    /\ UNCHANGED << src, cfg, tables, full_sync, total_count, records,
                    chunk_i, current_table_sequence, total_synced,
                    current_table_id, current_table_row_count, reads,
                    inserts, subLog, pageInserted, run0, interrupted, runs,
                    issued, calls, lastCall,
                    limiter >>
    /\ FinallyDisconnect

----------------------------------------------------------------------------
(* A whole run                                                             *)
(*                                                                         *)
(* run() without an exception, as a function of the checkpoint the process *)
(* loaded and the destination tables: the record st holds the locals of    *)
(* run() and the client's fields, reads and ins the requests made, data    *)
(* the checkpoint in memory.                                               *)

\* the client as the write call of the run sees it
RunClient(st) ==
    [ tables  |-> st.tables,
      tid     |-> st.tid,
      cnt     |-> st.cnt,
      max     |-> cfg.max_rows_per_table,
      seq     |-> 0,
      written |-> 0,
      ret     |-> 0,
      budget  |-> Null,
      failed  |-> FALSE,
      ins     |-> st.ins,
      log     |-> << >>,
      rl      |-> 0 ]

\* run, lines 174-184: the write call returned r
RunWrote(st, r) ==
    [ st EXCEPT !.tables = r.tables, !.tid = r.tid, !.cnt = r.cnt,
                !.seq = r.seq, !.ins = r.ins,
                !.total_synced = @ + r.written ]

\* run, lines 170-184: the write chunks of a page
RECURSIVE RunWritePage(_, _, _)
RunWritePage(st, recs, i) ==
    IF PageWritten(recs, i) THEN st
    ELSE RunWritePage(
             RunWrote(st, write_records_with_table_management(
                              RunClient(st),
                              WriteBatch(recs, i, cfg.write_batch_size),
                              st.seq, TRUE)),
             recs, i + cfg.write_batch_size)

\* run, lines 186-198: the checkpoint advance that closes a page
RunAdvanced(st, recs) ==
    [ st EXCEPT
        !.last_sync_value = src[recs[Len(recs)]],
        !.data   = SaveData(update_sync_progress(
                                st.data, Len(recs), src[recs[Len(recs)]],
                                st.tid, st.seq, st.offset + Len(recs))),
        !.offset = @ + Len(recs) ]

\* run, lines 156-164: the page read
RunRead(st, fs) ==
    read_batch(src, cfg.read_batch_size, st.offset,
               FilterColumn(st.last_sync_value, fs),
               FilterValue(st.last_sync_value, fs))

RunReadLogged(st, fs, recs) ==
    [ st EXCEPT !.reads =
        Append(@, [ sync_column |-> FilterColumn(st.last_sync_value, fs),
                    value       |-> FilterValue(st.last_sync_value, fs),
                    offset      |-> st.offset,
                    rows        |-> recs ]) ]

\* run, lines 152-198: the page loop
RECURSIVE RunPages(_, _)
RunAfterAdvance(st, fs) ==
    IF LoopContinues(st.offset, st.total_count) THEN RunPages(st, fs)
    ELSE st

RunAfterRead(st, fs, recs) ==
    IF Len(recs) = 0 THEN st
    ELSE RunAfterAdvance(RunAdvanced(RunWritePage(st, recs, 0), recs), fs)

RunPages(st, fs) ==
    RunAfterRead(RunReadLogged(st, fs, RunRead(st, fs)), fs, RunRead(st, fs))

\* run, lines 97-103: the checkpoint the run works from
RunCheckpoint(checkpoint, fs) ==
    IF fs THEN SaveData(_get_default_checkpoint) ELSE checkpoint

\* run, lines 119-150: the locals after the count
RunCounted(data, tbls, n) ==
    [ data            |-> data,
      tables          |-> tbls,
      tid             |-> IF NothingToSync(n) THEN cfg.base_table_id
                          ELSE StartTable(data.current_table_id,
                                          cfg.base_table_id),
      cnt             |-> 0,
      seq             |-> IF NothingToSync(n) THEN 1
                          ELSE data.current_table_sequence,
      last_sync_value |-> data.last_sync_value,
      total_count     |-> n,
      offset          |-> IF NothingToSync(n) THEN 0 ELSE StartOffset(data),
      total_synced    |-> 0,
      reads           |-> << >>,
      ins             |-> << >> ]

RunLoop(st, fs) ==
    IF NothingToSync(st.total_count) THEN st ELSE RunPages(st, fs)

RunFrom(data, tbls, fs) ==
    RunLoop(RunCounted(data, tbls,
                       get_total_count(
                           src, FilterColumn(data.last_sync_value, fs),
                           FilterValue(data.last_sync_value, fs))),
            fs)

\* OracleToFeishuSync.run(full_sync) by a process that loaded checkpoint
run(checkpoint, tbls, fs) ==
    RunFrom(RunCheckpoint(checkpoint, fs), tbls, fs)

----------------------------------------------------------------------------
(* Initial states *)

\* The code only compares sync values with each other, with None and with
\* zero, so a table of n distinct values is one of two: its smallest value
\* is 0 or it is not.
AscendingTable(n, first) ==
    [ k \in 1..n |-> first + k - 1 ]

NonNullTables ==
    { AscendingTable(n, first) : n \in 0..MaxRows, first \in { 0, 1 } }

\* source tables: ascending sync values, a row with a NULL sync value last
SourceTables ==
    NonNullTables \cup
    { Append(s, Null) : s \in { t \in NonNullTables : Len(t) < MaxRows } }

\* a configuration that names an existing, empty base table
BaseTableConfig ==
    [ read_batch_size    |-> MaxBatch,
      write_batch_size   |-> 1,
      max_rows_per_table |-> MaxTableRows,
      base_table_id      |-> 1 ]

Configs ==
    [ read_batch_size    : 1..MaxBatch,
      write_batch_size   : 1..MaxBatch,
      max_rows_per_table : 1..MaxTableRows,
      base_table_id      : { Null } ] \cup { BaseTableConfig }

\* the end-to-end scenario: 2500 rows, pages of 1000, chunks of 500,
\* shards of 2000 rows, no base table
ScenarioTable ==
    [ r \in 1..2500 |-> r ]

ScenarioConfig ==
    [ read_batch_size    |-> 1000,
      write_batch_size   |-> 500,
      max_rows_per_table |-> 2000,
      base_table_id      |-> Null ]

InitProcess ==
    /\ disk = AbsentFile
    /\ tables = IF cfg.base_table_id = Null THEN << >>
                ELSE << NewTable(0, {}) >>
    /\ ckpt = _load(disk)
    /\ pc = "idle"
    /\ full_sync = FALSE
    /\ last_sync_value = Null
    /\ total_count = 0
    /\ offset = 0
    /\ records = << >>
    /\ chunk_i = 0
    /\ current_table_sequence = 1
    /\ total_synced = 0
    /\ current_table_id = Null
    /\ current_table_row_count = 0
    /\ reads = << >>
    /\ inserts = << >>
    /\ subLog = << >>
    /\ pageInserted = << >>
    /\ run0 = [ ckpt |-> _get_default_checkpoint, tables |-> << >>,
                disk |-> AbsentFile, hist |-> 0, faults |-> 0 ]
    /\ interrupted = NoInterrupt
    /\ runs = 1
    /\ faults = 0
    /\ issued = 0
    /\ calls = 0
    /\ disconnects = 0
    /\ committed = Committed(_get_default_checkpoint, AbsentFile)
    /\ lastCall = NoCall
    /\ limiter = NewLimiter(50)

Init ==
    /\ \/ src \in SourceTables /\ cfg \in Configs
       \/ src = ScenarioTable /\ cfg = ScenarioConfig
    /\ InitProcess

MaxRequests ==
    4

Next ==
    \/ NewProcess
    \/ \E fs \in BOOLEAN, o \in { "ok", "fail", "torn" } : StartRun(fs, o)
    \/ \E fs \in BOOLEAN, stage \in { "connect", "schema" } :
           StartError(fs, stage)
    \/ Count
    \/ ReadPage
    \/ SourceError
    \/ \E b \in { Null } \cup 0..MaxRequests : WriteChunk(b)
    \/ \E o \in { "ok", "fail", "torn" } : Advance(o)

Spec ==
    Init /\ [][Next]_vars


----------------------------------------------------------------------------
(* Source tables with equal sync values *)

MaxTies ==
    2

\* tables whose rows all carry the same sync value
TieTables ==
    { [ k \in 1..n |-> first ] : n \in 2..MaxTies, first \in { 0, 1 } }

\* run, lines 152-167: one page read, the rows in the order the database
\* chose for this query
ReadPageTies(order) ==
    /\ pc = "read"
    /\ LET sc   == FilterColumn(last_sync_value, full_sync)
           lv   == FilterValue(last_sync_value, full_sync)
           recs == read_batch_in(order, src, cfg.read_batch_size, offset,
                                 sc, lv)
       IN  /\ reads' = Append(reads, [ sync_column |-> sc, value |-> lv,
                                       offset |-> offset, rows |-> recs ])
           /\ records' = recs
           /\ pc' = IF Len(recs) = 0 THEN "done" ELSE "write"
    /\ chunk_i' = 0
    /\ pageInserted' = << >>
    /\ UNCHANGED << src, cfg, disk, tables, ckpt, full_sync, last_sync_value,
                    total_count, offset, current_table_sequence, total_synced,
                    current_table_id, current_table_row_count, inserts,
                    subLog, run0, interrupted, runs, faults, issued, calls,
                    committed, lastCall, limiter >>
    /\ FinallyDisconnect

InitTies ==
    /\ src \in TieTables
    /\ cfg \in Configs
    /\ InitProcess

NextTies ==
    \/ NewProcess
    \/ \E fs \in BOOLEAN, o \in { "ok", "fail", "torn" } : StartRun(fs, o)
    \/ \E fs \in BOOLEAN, stage \in { "connect", "schema" } :
           StartError(fs, stage)
    \/ Count
    \/ \E order \in TieOrders(src) : ReadPageTies(order)
    \/ SourceError
    \/ \E b \in { Null } \cup 0..MaxRequests : WriteChunk(b)
    \/ \E o \in { "ok", "fail", "torn" } : Advance(o)

SpecTies ==
    InitTies /\ [][NextTies]_vars

----------------------------------------------------------------------------
(* Direct use of the destination client *)

MaxCalls ==
    2

ClientSizes ==
    0..MaxBatch \cup { BATCH_CREATE_LIMIT, BATCH_CREATE_LIMIT + 1 }

ClientConfigs ==
    [ read_batch_size    : { 1 },
      write_batch_size   : { 1 },
      max_rows_per_table : 1..MaxTableRows \cup
                           { BATCH_CREATE_LIMIT, 2 * BATCH_CREATE_LIMIT },
      base_table_id      : { Null, 1 } ]

\* the write call returned r, or raised
CallResult(r, budget) ==
    /\ budget # Null => r.failed /\ faults < MaxFaults
    /\ faults' = IF r.failed THEN faults + 1 ELSE faults
    /\ tables' = r.tables
    /\ current_table_id' = r.tid
    /\ current_table_row_count' = r.cnt
    /\ inserts' = r.ins
    /\ subLog' = r.log
    /\ current_table_sequence' =
         IF r.failed THEN current_table_sequence ELSE r.seq
    /\ total_synced' =
         IF r.failed THEN total_synced ELSE total_synced + r.written

\* the call as its caller saw it: n records numbered from first were
\* passed, r came back (or the call raised)
CallRecord(op, n, r, table_id) ==
    [ op |-> op, n |-> n, first |-> issued + 1, written |-> r.written,
      failed |-> r.failed, rl |-> r.rl, ins0 |-> Len(inserts),
      table |-> table_id, ret |-> Null, arg |-> Null ]

\* a caller passes n new records to write_records_with_table_management,
\* with the sequence the previous call returned
ClientWrite(n, schema, budget) ==
    /\ pc = "client"
    /\ calls < MaxCalls
    /\ calls' = calls + 1
    /\ issued' = issued + n
    /\ CallResult(write_records_with_table_management(
                      ClientState(budget), [ k \in 1..n |-> issued + k ],
                      current_table_sequence, schema),
                  budget)
    /\ lastCall' = CallRecord("write", n,
                              write_records_with_table_management(
                                  ClientState(budget),
                                  [ k \in 1..n |-> issued + k ],
                                  current_table_sequence, schema),
                              Null)
    /\ UNCHANGED << src, cfg, disk, ckpt, pc, full_sync, last_sync_value,
                    total_count, offset, records, chunk_i, reads,
                    pageInserted, run0, interrupted, runs, disconnects,
                    committed,
                    limiter >>

\* the insert call returned r, or raised
InsertResult(r, budget) ==
    /\ budget # Null => r.failed /\ faults < MaxFaults
    /\ faults' = IF budget # Null THEN faults + 1 ELSE faults
    /\ tables' = r.tables
    /\ inserts' = r.ins

\* a caller passes n new records to batch_create_records for the current
\* table
ClientInsert(n, budget) ==
    /\ pc = "client"
    /\ calls < MaxCalls
    /\ current_table_id # Null
    /\ calls' = calls + 1
    /\ issued' = issued + n
    /\ InsertResult(batch_create_records(ClientState(budget),
                                         current_table_id,
                                         [ k \in 1..n |-> issued + k ]),
                    budget)
    /\ lastCall' = CallRecord("insert", n,
                              batch_create_records(
                                  ClientState(budget), current_table_id,
                                  [ k \in 1..n |-> issued + k ]),
                              current_table_id)
    /\ UNCHANGED << src, cfg, disk, ckpt, pc, full_sync, last_sync_value,
                    total_count, offset, records, chunk_i, reads,
                    pageInserted, run0, interrupted, runs, disconnects,
                    committed, current_table_id, current_table_row_count,
                    current_table_sequence, total_synced, subLog,
                    limiter >>

InitClient ==
    /\ src = << >>
    /\ cfg \in ClientConfigs
    /\ disk = AbsentFile
    /\ tables = IF cfg.base_table_id = Null THEN << >>
                ELSE << NewTable(0, {}) >>
    /\ ckpt = _load(disk)
    /\ pc = "client"
    /\ full_sync = FALSE
    /\ last_sync_value = Null
    /\ total_count = 0
    /\ offset = 0
    /\ records = << >>
    /\ chunk_i = 0
    /\ current_table_sequence = 1
    /\ total_synced = 0
    /\ current_table_id = cfg.base_table_id
    /\ current_table_row_count = 0
    /\ reads = << >>
    /\ inserts = << >>
    /\ subLog = << >>
    /\ pageInserted = << >>
    /\ run0 = [ ckpt |-> _get_default_checkpoint, tables |-> << >>,
                disk |-> AbsentFile, hist |-> 0, faults |-> 0 ]
    /\ interrupted = NoInterrupt
    /\ runs = 1
    /\ faults = 0
    /\ issued = 0
    /\ calls = 0
    /\ disconnects = 0
    /\ committed = Committed(_get_default_checkpoint, AbsentFile)
    /\ lastCall = NoCall
    /\ limiter = NewLimiter(50)

NextClient ==
    \/ \E n \in ClientSizes, schema \in BOOLEAN,
          b \in { Null } \cup 0..MaxRequests :
           ClientWrite(n, schema, b)
    \/ \E n \in ClientSizes, b \in { Null, 0 } : ClientInsert(n, b)

SpecClient ==
    InitClient /\ [][NextClient]_vars

----------------------------------------------------------------------------
(* Direct use of the checkpoint manager                                    *)
(*                                                                         *)
(* One CheckpointManager is built on a file and then called.  json.load    *)
(* returns whatever the file holds: an object that lacks keys is a record  *)
(* with the fields it has, a document that is not an object is NotAnObject.*)
(***************************************************************************)

MaxUpdates ==
    102

NotAnObject ==
    [ json |-> "list" ]

IsObject(data) ==
    "json" \notin DOMAIN data

HasKey(data, key) ==
    IsObject(data) /\ key \in DOMAIN data

\* update_sync_progress, lines 119 and 135: data["total_records_synced"] +=
\* and data["sync_history"].append raise when the key is missing
UpdateRaises(data) ==
    ~HasKey(data, "total_records_synced") \/ ~HasKey(data, "sync_history")

AssignedKeys ==
    { "total_records_synced", "last_sync_value", "current_table_id",
      "current_table_sequence", "last_batch_offset" }

\* update_sync_progress, lines 119-125: the assignments made before line 135
\* raises for a missing sync_history; line 119 raises before any of them
UpdateBeforeRaise(data, records_synced, last_value, table_id, table_sequence, batch_offset) ==
    IF ~HasKey(data, "total_records_synced") THEN data
    ELSE [ k \in DOMAIN data \cup AssignedKeys |->
             CASE k = "total_records_synced" -> data[k] + records_synced
               [] k = "last_sync_value" -> last_value
               [] k = "current_table_id" -> table_id
               [] k = "current_table_sequence" -> table_sequence
               [] k = "last_batch_offset" -> batch_offset
               [] OTHER -> data[k] ]

\* CheckpointManager.get_last_sync_value: dict.get
get_last_sync_value(data) ==
    IF HasKey(data, "last_sync_value") THEN data.last_sync_value ELSE Null

\* reset leaves the shard sequence where it was
reset_keeps_sequence(data) ==
    [ _get_default_checkpoint EXCEPT !.current_table_sequence = 2 ]

\* CheckpointManager.reset, line 169: the data is replaced by the defaults
reset(data) ==
    _get_default_checkpoint

\* a checkpoint with progress, as an earlier run saved it
ProgressCheckpoint ==
    SaveData(update_sync_progress(_get_default_checkpoint, 2, 7, 1, 1, 2))

\* an object without the counter, and one that only lacks the history
PartialObjects ==
    { [ last_sync_value |-> 7 ],
      [ last_sync_time |-> 1, last_sync_value |-> 7,
        total_records_synced |-> 2, current_table_sequence |-> 1,
        current_table_id |-> 1, last_batch_offset |-> 2 ] }

ManagerFiles ==
    { AbsentFile,
      [ state |-> "corrupt", data |-> _get_default_checkpoint ],
      [ state |-> "valid", data |-> SaveData(_get_default_checkpoint) ],
      [ state |-> "valid", data |-> ProgressCheckpoint ],
      [ state |-> "valid", data |-> NotAnObject ] }
    \cup { [ state |-> "valid", data |-> d ] : d \in PartialObjects }

\* the caller reports pages of read_batch_size rows
ManagerConfigs ==
    [ read_batch_size    : 0..MaxBatch,
      write_batch_size   : { 1 },
      max_rows_per_table : { 1 },
      base_table_id      : { Null } ]

ManagerCall(op, n, failed, ret) ==
    [ NoCall EXCEPT !.op = op, !.n = n, !.failed = failed, !.ret = ret ]

HistoryLength(data) ==
    IF HasKey(data, "sync_history") THEN Len(data.sync_history) ELSE 0

\* update_sync_progress for the page numbered calls + 1
UpdatedData ==
    update_sync_progress(ckpt, cfg.read_batch_size, calls + 1, 1, 1,
                         calls + 1)

\* CheckpointManager.update_sync_progress
ManagerUpdate(outcome) ==
    /\ pc = "manager"
    /\ calls < MaxUpdates
    /\ outcome # "ok" => ~UpdateRaises(ckpt) /\ faults < MaxFaults
    /\ faults' = IF outcome = "ok" THEN faults ELSE faults + 1
    /\ IF UpdateRaises(ckpt)
       THEN /\ ckpt' = UpdateBeforeRaise(ckpt, cfg.read_batch_size,
                                         calls + 1, 1, 1, calls + 1)
            /\ pc' = "raised"
            /\ UNCHANGED << disk, calls >>
       ELSE /\ ckpt' = SaveData(UpdatedData)
            /\ disk' = SaveFile(disk, UpdatedData, outcome)
            /\ calls' = calls + 1
            /\ pc' = pc
    /\ lastCall' = ManagerCall("update", cfg.read_batch_size,
                               UpdateRaises(ckpt) \/ outcome # "ok", Null)
    /\ UNCHANGED << src, cfg, tables, full_sync, last_sync_value, total_count,
                    offset, records, chunk_i, current_table_sequence,
                    total_synced, current_table_id, current_table_row_count,
                    reads, inserts, subLog, pageInserted, run0, interrupted,
                    runs, issued, disconnects, committed,
                    limiter >>

\* CheckpointManager.get_last_sync_value
ManagerGet ==
    /\ pc = "manager"
    /\ pc' = IF IsObject(ckpt) THEN pc ELSE "raised"
    /\ lastCall' = ManagerCall("get", 0, ~IsObject(ckpt),
                               IF IsObject(ckpt)
                               THEN get_last_sync_value(ckpt) ELSE Null)
    /\ UNCHANGED << src, cfg, disk, tables, ckpt, full_sync, last_sync_value,
                    total_count, offset, records, chunk_i,
                    current_table_sequence, total_synced, current_table_id,
                    current_table_row_count, reads, inserts, subLog,
                    pageInserted, run0, interrupted, runs, faults, issued,
                    calls, disconnects, committed,
                    limiter >>

\* the counter a reset() throws away
Discarded(data) ==
    IF HasKey(data, "total_records_synced") THEN data.total_records_synced
    ELSE 0

\* CheckpointManager.reset
ManagerReset(outcome) ==
    /\ pc = "manager"
    /\ outcome # "ok" => faults < MaxFaults
    /\ faults' = IF outcome = "ok" THEN faults ELSE faults + 1
    /\ ckpt' = SaveData(reset(ckpt))
    /\ disk' = SaveFile(disk, reset(ckpt), outcome)
    /\ calls' = 0
    /\ run0' = [ run0 EXCEPT !.hist = 0 ]
    /\ lastCall' = ManagerCall("reset", Discarded(ckpt), outcome # "ok", Null)
    /\ UNCHANGED << src, cfg, tables, pc, full_sync, last_sync_value,
                    total_count, offset, records, chunk_i,
                    current_table_sequence, total_synced, current_table_id,
                    current_table_row_count, reads, inserts, subLog,
                    pageInserted, interrupted, runs, issued, disconnects,
                    committed,
                    limiter >>

\* CheckpointManager.__init__ on one of the files
InitManager ==
    /\ src = << >>
    /\ cfg \in ManagerConfigs
    /\ disk \in ManagerFiles
    /\ tables = << >>
    /\ ckpt = _load(disk)
    /\ pc = "manager"
    /\ full_sync = FALSE
    /\ last_sync_value = Null
    /\ total_count = 0
    /\ offset = 0
    /\ records = << >>
    /\ chunk_i = 0
    /\ current_table_sequence = 1
    /\ total_synced = 0
    /\ current_table_id = Null
    /\ current_table_row_count = 0
    /\ reads = << >>
    /\ inserts = << >>
    /\ subLog = << >>
    /\ pageInserted = << >>
    /\ run0 = [ ckpt |-> _load(disk), tables |-> << >>, disk |-> disk,
                hist |-> HistoryLength(_load(disk)), faults |-> 0 ]
    /\ interrupted = NoInterrupt
    /\ runs = 1
    /\ faults = 0
    /\ issued = 0
    /\ calls = 0
    /\ disconnects = 0
    /\ committed = Committed(_get_default_checkpoint, AbsentFile)
    /\ lastCall = NoCall
    /\ limiter = NewLimiter(50)

NextManager ==
    \/ \E o \in { "ok", "fail", "torn" } : ManagerUpdate(o)
    \/ ManagerGet
    \/ \E o \in { "ok", "fail", "torn" } : ManagerReset(o)

SpecManager ==
    InitManager /\ [][NextManager]_vars

----------------------------------------------------------------------------
(* Direct use of the rate limiter *)

MaxTime ==
    7

MaxRate ==
    2

MaxPasses ==
    5

\* time passes between two requests
Tick ==
    /\ pc = "limiter"
    /\ limiter.now < MaxTime
    /\ limiter' = [ limiter EXCEPT !.now = @ + 1 ]
    /\ UNCHANGED << src, cfg, disk, tables, ckpt, pc, full_sync,
                    last_sync_value, total_count, offset, records, chunk_i,
                    current_table_sequence, total_synced, current_table_id,
                    current_table_row_count, reads, inserts, subLog,
                    pageInserted, run0, interrupted, runs, faults, issued,
                    calls, disconnects, committed, lastCall >>

\* a request of the client: _apply_rate_limit() before the API call
Request(oversleep) ==
    /\ pc = "limiter"
    /\ Len(limiter.passes) < MaxPasses
    /\ limiter' = _apply_rate_limit(limiter, oversleep)
    /\ UNCHANGED << src, cfg, disk, tables, ckpt, pc, full_sync,
                    last_sync_value, total_count, offset, records, chunk_i,
                    current_table_sequence, total_synced, current_table_id,
                    current_table_row_count, reads, inserts, subLog,
                    pageInserted, run0, interrupted, runs, faults, issued,
                    calls, disconnects, committed, lastCall >>

InitLimiter ==
    /\ src = << >>
    /\ cfg = BaseTableConfig
    /\ disk = AbsentFile
    /\ tables = << >>
    /\ ckpt = _get_default_checkpoint
    /\ pc = "limiter"
    /\ full_sync = FALSE
    /\ last_sync_value = Null
    /\ total_count = 0
    /\ offset = 0
    /\ records = << >>
    /\ chunk_i = 0
    /\ current_table_sequence = 1
    /\ total_synced = 0
    /\ current_table_id = Null
    /\ current_table_row_count = 0
    /\ reads = << >>
    /\ inserts = << >>
    /\ subLog = << >>
    /\ pageInserted = << >>
    /\ run0 = [ ckpt |-> _get_default_checkpoint, tables |-> << >>,
                disk |-> AbsentFile, hist |-> 0, faults |-> 0 ]
    /\ interrupted = NoInterrupt
    /\ runs = 1
    /\ faults = 0
    /\ issued = 0
    /\ calls = 0
    /\ disconnects = 0
    /\ committed = Committed(_get_default_checkpoint, AbsentFile)
    /\ lastCall = NoCall
    /\ limiter \in { NewLimiter(m) : m \in 1..MaxRate }

NextLimiter ==
    \/ Tick
    \/ \E oversleep \in 0..1 : Request(oversleep)

SpecLimiter ==
    InitLimiter /\ [][NextLimiter]_vars

----------------------------------------------------------------------------
(* Direct calls of the pure functions *)

MaxParts ==
    3

\* sequences of one to n elements of S
SeqsUpTo(S, n) ==
    UNION { [ 1..k -> S ] : k \in 1..n }

TimestampPrecisions ==
    { Null, 0, 3, 6, 9 }

\* the type names of the three tuples and those of TIMESTAMP in every
\* precision and zone variant, and two types outside the tuples
OracleTypeNames ==
    { TypeName(t.base, t.precision, t.zone, u) :
        t \in NumberTypeNames \cup DateTypeNames \cup TextTypeNames
              \cup { Plain("BLOB"), Plain("RAW") }
              \cup { TypeName("TIMESTAMP", p, z, TRUE) :
                       p \in TimestampPrecisions,
                       z \in { "", "WITH TIME ZONE",
                               "WITH LOCAL TIME ZONE" } },
        u \in BOOLEAN }

\* the types the dictionary reports for a column, None for no such column
ColumnTypes ==
    { t \in OracleTypeNames : t.uppercase } \cup { None }

SampleStrings ==
    { Str(parts) : parts \in SeqsUpTo(Tokens, MaxParts) } \cup { Str(<< >>) }

SampleValues ==
    { None, Bool(TRUE), Bool(FALSE),
      IntValue(0), IntValue(7), FloatValue(7), [ kind |-> "decimal", v |-> 7 ],
      Datetime(7000, "UTC"), [ kind |-> "bytes" ] } \cup SampleStrings

\* cursor values a checkpoint or a caller holds
SyncValues ==
    { None, IntValue(0), IntValue(7), FloatValue(7), Datetime(7000, "UTC"),
      Datetime(7000, "naive"), Str(<< "WORD" >>), Str(<< "DATE" >>) }

RunLengths ==
    { 1, 29 }

Identifiers ==
    SeqsUpTo([ c : IdentifierChars, n : RunLengths ], MaxParts)
    \cup { << >> }

FunctionCall(op, arg, ret) ==
    [ NoCall EXCEPT !.op = op, !.arg = arg, !.ret = ret ]

\* the call returns; nothing else changes
Returned(call) ==
    /\ pc' = "returned"
    /\ lastCall' = call
    /\ UNCHANGED << src, cfg, disk, tables, ckpt, full_sync, last_sync_value,
                    total_count, offset, records, chunk_i,
                    current_table_sequence, total_synced, current_table_id,
                    current_table_row_count, reads, inserts, subLog,
                    pageInserted, run0, interrupted, runs, faults, issued,
                    calls, disconnects, committed, limiter >>

MapType(oracle_type) ==
    /\ pc = "functions"
    /\ Returned(FunctionCall("map_oracle_type_to_feishu", oracle_type,
                             map_oracle_type_to_feishu(oracle_type)))

InferType(value) ==
    /\ pc = "functions"
    /\ Returned(FunctionCall("_infer_field_type", value,
                             _infer_field_type(value)))

ValidateIdentifier(identifier) ==
    /\ pc = "functions"
    /\ Returned(FunctionCall("_validate_sql_identifier", identifier,
                             _validate_sql_identifier(identifier)))

PrepareSyncValue(column_type, value) ==
    /\ pc = "functions"
    /\ Returned(FunctionCall("_prepare_sync_value_for_query",
                             [ column_type |-> column_type, value |-> value ],
                             _prepare_sync_value_for_query(column_type, value)))

InitFunctions ==
    /\ src = << >>
    /\ cfg = BaseTableConfig
    /\ disk = AbsentFile
    /\ tables = << >>
    /\ ckpt = _get_default_checkpoint
    /\ pc = "functions"
    /\ full_sync = FALSE
    /\ last_sync_value = Null
    /\ total_count = 0
    /\ offset = 0
    /\ records = << >>
    /\ chunk_i = 0
    /\ current_table_sequence = 1
    /\ total_synced = 0
    /\ current_table_id = Null
    /\ current_table_row_count = 0
    /\ reads = << >>
    /\ inserts = << >>
    /\ subLog = << >>
    /\ pageInserted = << >>
    /\ run0 = [ ckpt |-> _get_default_checkpoint, tables |-> << >>,
                disk |-> AbsentFile, hist |-> 0, faults |-> 0 ]
    /\ interrupted = NoInterrupt
    /\ runs = 1
    /\ faults = 0
    /\ issued = 0
    /\ calls = 0
    /\ disconnects = 0
    /\ committed = Committed(_get_default_checkpoint, AbsentFile)
    /\ lastCall = NoCall
    /\ limiter = NewLimiter(50)

NextFunctions ==
    \/ \E t \in OracleTypeNames : MapType(t)
    \/ \E v \in SampleValues : InferType(v)
    \/ \E id \in Identifiers : ValidateIdentifier(id)
    \/ \E t \in ColumnTypes, v \in SyncValues : PrepareSyncValue(t, v)

SpecFunctions ==
    InitFunctions /\ [][NextFunctions]_vars

----------------------------------------------------------------------------
(* Millisecond values through a datetime and back *)

MaxMillis ==
    1100

\* a millisecond value is converted for a query and the datetime read back
ConvertAndReadBack(timestamp_ms) ==
    /\ pc = "functions"
    /\ Returned(FunctionCall(
           "round_trip", timestamp_ms,
           [ micros |-> convert_timestamp_micros(timestamp_ms),
             ms     |-> timestamp_ms_of(
                            convert_timestamp_micros(timestamp_ms)) ]))

NextRoundTrip ==
    \E t \in 0..MaxMillis : ConvertAndReadBack(t)

SpecRoundTrip ==
    InitFunctions /\ [][NextRoundTrip]_vars

----------------------------------------------------------------------------
(* Statements of the reader                                                *)
(*                                                                         *)
(* What a method of OracleDataReader does with its identifiers: raised is  *)
(* TRUE when it raised ValueError, executed is the sequence of statements  *)
(* passed to cursor.execute.  A statement is the query it runs, the        *)
(* identifiers formatted into its text and the names of its bound          *)
(* parameters.  An optional identifier that is None or "" is << >>.        *)

Statement(query, identifiers, binds) ==
    [ query |-> query, identifiers |-> identifiers, binds |-> binds ]

Raised ==
    [ raised |-> TRUE, executed |-> << >> ]

Executed(statements) ==
    [ raised |-> FALSE, executed |-> statements ]

\* if sync_column: / if order_by:
Present(identifier) ==
    identifier # << >>

\* the optional identifier is absent or passes _validate_sql_identifier
ValidIfPresent(identifier) ==
    Present(identifier) => _validate_sql_identifier(identifier)

\* get_table_schema, lines 241-250: the dictionary query, table name bound
SchemaStatement ==
    Statement("schema", << >>, { "table_name" })

\* _prepare_sync_value_for_query -> _get_column_type, lines 143-146: the
\* schema is fetched when it is not cached
ColumnTypeLookup(cached) ==
    IF cached THEN << >> ELSE << SchemaStatement >>

\* OracleDataReader.get_table_columns, lines 214-225
get_table_columns_statements(table_name) ==
    IF ~_validate_sql_identifier(table_name) THEN Raised
    ELSE Executed(<< Statement("columns", << >>, { "table_name" }) >>)

\* OracleDataReader.get_table_schema, lines 241-250
get_table_schema_statements(table_name) ==
    IF ~_validate_sql_identifier(table_name) THEN Raised
    ELSE Executed(<< SchemaStatement >>)

\* OracleDataReader.get_total_count, lines 287-299
get_total_count_statements(table_name, sync_column, has_value, cached) ==
    IF ~_validate_sql_identifier(table_name) THEN Raised
    ELSE IF ~ValidIfPresent(sync_column) THEN Raised
    ELSE IF Present(sync_column) /\ has_value
         THEN Executed(ColumnTypeLookup(cached) \o
                       << Statement("count", << table_name, sync_column >>,
                                    { "last_value" }) >>)
         ELSE Executed(<< Statement("count", << table_name >>, {}) >>)

\* read_batch, lines 343-357: the identifiers of the inner query
BaseQueryIdentifiers(table_name, columns, sync_column, has_value, order_by) ==
    columns \o << table_name >> \o
    (IF Present(sync_column) /\ has_value THEN << sync_column >> ELSE << >>)
    \o (IF Present(order_by) THEN << order_by >> ELSE << >>)

\* read_batch, lines 346-372: the parameters of the page query
PageBinds(sync_column, has_value) ==
    (IF Present(sync_column) /\ has_value THEN { "last_value" } ELSE {})
    \cup { "max_row", "min_row" }

\* OracleDataReader.read_batch, lines 334-372
read_batch_statements(table_name, columns, sync_column, has_value, order_by, cached) ==
    IF ~_validate_sql_identifier(table_name) THEN Raised
    ELSE IF \E i \in 1..Len(columns) : ~_validate_sql_identifier(columns[i])
         THEN Raised
    ELSE IF ~ValidIfPresent(sync_column) THEN Raised
    ELSE IF ~ValidIfPresent(order_by) THEN Raised
    ELSE Executed(
             (IF Present(sync_column) /\ has_value
              THEN ColumnTypeLookup(cached) ELSE << >>) \o
             << Statement("page",
                          BaseQueryIdentifiers(table_name, columns,
                                               sync_column, has_value,
                                               order_by),
                          PageBinds(sync_column, has_value)) >>)

\* OracleDataReader.get_max_value, lines 414-418
get_max_value_statements(table_name, column_name) ==
    IF ~_validate_sql_identifier(table_name) THEN Raised
    ELSE IF ~_validate_sql_identifier(column_name) THEN Raised
    ELSE Executed(<< Statement("max", << column_name, table_name >>, {}) >>)

\* A, A; , A<newline>, a name of 58 characters, and none
ReaderIdentifiers ==
    { << [ c |-> "A", n |-> 1 ] >>,
      << [ c |-> "A", n |-> 1 ], [ c |-> ";", n |-> 1 ] >>,
      << [ c |-> "A", n |-> 1 ], [ c |-> "\n", n |-> 1 ] >>,
      << [ c |-> "A", n |-> 29 ], [ c |-> "1", n |-> 29 ] >>,
      << >> }

\* the identifiers a call was given: the optional ones when present
GivenIdentifiers(required, optional) ==
    required \o SelectSeq(optional, Present)

ReaderCall(op, identifiers, has_value, ret) ==
    FunctionCall(op, [ identifiers |-> identifiers,
                       has_value |-> has_value ], ret)

GetTableColumns(table_name) ==
    /\ pc = "functions"
    /\ Returned(ReaderCall("get_table_columns", << table_name >>, FALSE,
                           get_table_columns_statements(table_name)))

GetTableSchema(table_name) ==
    /\ pc = "functions"
    /\ Returned(ReaderCall("get_table_schema", << table_name >>, FALSE,
                           get_table_schema_statements(table_name)))

GetTotalCount(table_name, sync_column, has_value, cached) ==
    /\ pc = "functions"
    /\ Returned(ReaderCall("get_total_count",
                           GivenIdentifiers(<< table_name >>,
                                            << sync_column >>),
                           has_value,
                           get_total_count_statements(
                               table_name, sync_column, has_value, cached)))

ReadBatch(table_name, columns, sync_column, has_value, order_by, cached) ==
    /\ pc = "functions"
    /\ Returned(ReaderCall("read_batch",
                           GivenIdentifiers(<< table_name >> \o columns,
                                            << sync_column, order_by >>),
                           has_value,
                           read_batch_statements(
                               table_name, columns, sync_column, has_value,
                               order_by, cached)))

GetMaxValue(table_name, column_name) ==
    /\ pc = "functions"
    /\ Returned(ReaderCall("get_max_value",
                           << table_name, column_name >>, FALSE,
                           get_max_value_statements(table_name,
                                                    column_name)))

NextReader ==
    \/ \E t \in ReaderIdentifiers : GetTableColumns(t)
    \/ \E t \in ReaderIdentifiers : GetTableSchema(t)
    \/ \E t \in ReaderIdentifiers, s \in ReaderIdentifiers,
          v \in BOOLEAN, cached \in BOOLEAN : GetTotalCount(t, s, v, cached)
    \/ \E t \in ReaderIdentifiers, c \in ReaderIdentifiers,
          s \in ReaderIdentifiers, v \in BOOLEAN,
          o \in ReaderIdentifiers, cached \in BOOLEAN :
           ReadBatch(t, << c >>, s, v, o, cached)
    \/ \E t \in ReaderIdentifiers, c \in ReaderIdentifiers :
           GetMaxValue(t, c)

SpecReader ==
    InitFunctions /\ [][NextReader]_vars

----------------------------------------------------------------------------
(* Field creation: FeishuClient.create_fields_if_needed                    *)
(*                                                                         *)
(* One destination table whose fields are the sequence tables[1].fields,   *)
(* in the order the field list returns them; a field name is a number.  A  *)
(* sample record is the sequence of its keys.                              *)

\* get_table_fields, line 349: page_size(100)
FIELD_PAGE_SIZE ==
    100

\* get_table_fields, lines 343-368: one list request; the items of its
\* response are collected and no further page is asked for
get_table_fields(fields) ==
    SubSeq(fields, 1, Min(Len(fields), FIELD_PAGE_SIZE))

\* every page of the field list is collected
get_table_fields_all_pages(fields) ==
    fields

NamesOf(fields) ==
    { fields[k] : k \in 1..Len(fields) }

\* create_fields_if_needed, lines 385-406: the create request for one
\* field; the destination refuses a name the table has, and may refuse
\* any request; a refusal is logged and the loop goes on
FieldCreateRequest(t, field_name, refused) ==
    IF field_name \in NamesOf(t.fields) \/ field_name \in refused
    THEN [ t EXCEPT !.requests = Append(@, field_name) ]
    ELSE [ t EXCEPT !.requests = Append(@, field_name),
                    !.fields   = Append(@, field_name),
                    !.created  = @ + 1 ]

\* create_fields_if_needed, lines 384-406: the loop over the sample record
RECURSIVE CreateMissingFields(_, _, _, _, _)
CreateMissingFields(t, existing_field_names, sample_record, refused, i) ==
    IF i > Len(sample_record) THEN t
    ELSE IF sample_record[i] \in existing_field_names
    THEN CreateMissingFields(t, existing_field_names, sample_record,
                             refused, i + 1)
    ELSE CreateMissingFields(
             FieldCreateRequest(t, sample_record[i], refused),
             existing_field_names, sample_record, refused, i + 1)

\* FeishuClient.create_fields_if_needed on a table with the given fields:
\* the fields afterwards, the create requests sent and the fields created
create_fields_in(fields, sample_record, refused) ==
    CreateMissingFields([ fields |-> fields, requests |-> << >>,
                          created |-> 0 ],
                        NamesOf(get_table_fields(fields)),
                        sample_record, refused, 1)

\* tables of 0 to a page and one fields
FieldCounts ==
    { 0, 1, FIELD_PAGE_SIZE - 1, FIELD_PAGE_SIZE, FIELD_PAGE_SIZE + 1 }

SampleFieldNames ==
    { 1, FIELD_PAGE_SIZE, FIELD_PAGE_SIZE + 1, FIELD_PAGE_SIZE + 2 }

\* sample records of one or two keys
SampleRecords ==
    { << a >> : a \in SampleFieldNames } \cup
    { r \in SampleFieldNames \X SampleFieldNames : r[1] < r[2] }

\* the call as its caller saw it: arg is the sample record, ret the names
\* of the create requests in the order they were sent, written the number
\* of fields created
FieldsCall(sample_record, t, raised) ==
    [ NoCall EXCEPT !.op = "fields", !.n = Len(t.requests),
                    !.written = t.created, !.failed = raised,
                    !.arg = sample_record, !.ret = t.requests,
                    !.ins0 = Len(tables[1].fields) ]

\* create_fields_if_needed(table_id, sample_record) returned
CreateFields(sample_record, refused) ==
    /\ pc = "fields"
    /\ calls < MaxCalls
    /\ calls' = calls + 1
    /\ tables' = [ tables EXCEPT ![1].fields =
                     create_fields_in(@, sample_record, refused).fields ]
    /\ lastCall' = FieldsCall(sample_record,
                              create_fields_in(tables[1].fields,
                                               sample_record, refused),
                              FALSE)
    /\ UNCHANGED << src, cfg, disk, ckpt, pc, full_sync, last_sync_value,
                    total_count, offset, records, chunk_i,
                    current_table_sequence, total_synced, current_table_id,
                    current_table_row_count, reads, inserts, subLog,
                    pageInserted, run0, interrupted, runs, faults, issued,
                    disconnects, committed, limiter >>

\* get_table_fields raised (lines 353-355): no create request is sent
ListFieldsRaises(sample_record) ==
    /\ pc = "fields"
    /\ calls < MaxCalls
    /\ calls' = calls + 1
    /\ lastCall' = FieldsCall(sample_record,
                              [ fields |-> tables[1].fields,
                                requests |-> << >>, created |-> 0 ],
                              TRUE)
    /\ UNCHANGED << src, cfg, disk, tables, ckpt, pc, full_sync,
                    last_sync_value, total_count, offset, records, chunk_i,
                    current_table_sequence, total_synced, current_table_id,
                    current_table_row_count, reads, inserts, subLog,
                    pageInserted, run0, interrupted, runs, faults, issued,
                    disconnects, committed, limiter >>

InitFields ==
    /\ src = << >>
    /\ cfg = BaseTableConfig
    /\ disk = AbsentFile
    /\ tables \in { << NewTable(0, [ k \in 1..m |-> k ]) >> :
                    m \in FieldCounts }
    /\ ckpt = _get_default_checkpoint
    /\ pc = "fields"
    /\ full_sync = FALSE
    /\ last_sync_value = Null
    /\ total_count = 0
    /\ offset = 0
    /\ records = << >>
    /\ chunk_i = 0
    /\ current_table_sequence = 1
    /\ total_synced = 0
    /\ current_table_id = 1
    /\ current_table_row_count = 0
    /\ reads = << >>
    /\ inserts = << >>
    /\ subLog = << >>
    /\ pageInserted = << >>
    /\ run0 = [ ckpt |-> _get_default_checkpoint, tables |-> << >>,
                disk |-> AbsentFile, hist |-> 0, faults |-> 0 ]
    /\ interrupted = NoInterrupt
    /\ runs = 1
    /\ faults = 0
    /\ issued = 0
    /\ calls = 0
    /\ disconnects = 0
    /\ committed = Committed(_get_default_checkpoint, AbsentFile)
    /\ lastCall = NoCall
    /\ limiter = NewLimiter(50)

NextFields ==
    \/ \E r \in SampleRecords, refused \in SUBSET SampleFieldNames :
           CreateFields(r, refused)
    \/ \E r \in SampleRecords : ListFieldsRaises(r)

SpecFields ==
    InitFields /\ [][NextFields]_vars

----------------------------------------------------------------------------
(* Type mapping between the client's other calls                           *)
(*                                                                         *)
(* A client that writes records and sends requests is asked for field      *)
(* types in between.  The call record of a type call counts in n how often *)
(* the same method was called with the same argument in a row, and keeps   *)
(* in first and rl the records issued and the requests let through when    *)
(* the first of these calls was made.                                      *)

TypeOps ==
    { "map_oracle_type_to_feishu", "_infer_field_type" }

SameCall(op, arg) ==
    lastCall.op = op /\ lastCall.arg = arg

TypeCall(op, arg, ret) ==
    [ NoCall EXCEPT !.op = op, !.arg = arg, !.ret = ret,
                    !.n = IF SameCall(op, arg) THEN lastCall.n + 1 ELSE 1,
                    !.first = IF SameCall(op, arg) THEN lastCall.first
                              ELSE issued,
                    !.rl = IF SameCall(op, arg) THEN lastCall.rl
                           ELSE Len(limiter.passes),
                    !.table = current_table_id ]

\* a type call returns: no attribute of the client is assigned
TypeReturned(call) ==
    /\ pc = "types"
    /\ calls < MaxCalls
    /\ calls' = calls + 1
    /\ lastCall' = call
    /\ UNCHANGED << src, cfg, disk, tables, ckpt, pc, full_sync,
                    last_sync_value, total_count, offset, records, chunk_i,
                    current_table_sequence, total_synced, current_table_id,
                    current_table_row_count, reads, inserts, subLog,
                    pageInserted, run0, interrupted, runs, faults, issued,
                    disconnects, committed, limiter >>

\* FeishuClient.map_oracle_type_to_feishu(oracle_type)
TypeMapped(oracle_type) ==
    TypeReturned(TypeCall("map_oracle_type_to_feishu", oracle_type,
                          map_oracle_type_to_feishu(oracle_type)))

\* FeishuClient._infer_field_type(value)
TypeInferred(value) ==
    TypeReturned(TypeCall("_infer_field_type", value,
                          _infer_field_type(value)))

\* write_records_with_table_management for one new record: the current
\* shard and its row count change
TypesWrite(schema) ==
    /\ pc = "types"
    /\ issued < MaxCalls
    /\ issued' = issued + 1
    /\ CallResult(write_records_with_table_management(
                      ClientState(Null), << issued + 1 >>,
                      current_table_sequence, schema),
                  Null)
    /\ UNCHANGED << src, cfg, disk, ckpt, pc, full_sync, last_sync_value,
                    total_count, offset, records, chunk_i, reads,
                    pageInserted, run0, interrupted, runs, disconnects,
                    committed, calls, lastCall, limiter >>

\* _apply_rate_limit() of a request: the counters of the limiter change
TypesRequest ==
    /\ pc = "types"
    /\ Len(limiter.passes) < MaxRate + 1
    /\ limiter' = _apply_rate_limit(limiter, 0)
    /\ UNCHANGED << src, cfg, disk, tables, ckpt, pc, full_sync,
                    last_sync_value, total_count, offset, records, chunk_i,
                    current_table_sequence, total_synced, current_table_id,
                    current_table_row_count, reads, inserts, subLog,
                    pageInserted, run0, interrupted, runs, faults, issued,
                    calls, disconnects, committed, lastCall >>

InitTypes ==
    /\ src = << >>
    /\ cfg \in { c \in ClientConfigs : c.max_rows_per_table = MaxTableRows }
    /\ disk = AbsentFile
    /\ tables = IF cfg.base_table_id = Null THEN << >>
                ELSE << NewTable(0, {}) >>
    /\ ckpt = _get_default_checkpoint
    /\ pc = "types"
    /\ full_sync = FALSE
    /\ last_sync_value = Null
    /\ total_count = 0
    /\ offset = 0
    /\ records = << >>
    /\ chunk_i = 0
    /\ current_table_sequence = 1
    /\ total_synced = 0
    /\ current_table_id = cfg.base_table_id
    /\ current_table_row_count = 0
    /\ reads = << >>
    /\ inserts = << >>
    /\ subLog = << >>
    /\ pageInserted = << >>
    /\ run0 = [ ckpt |-> _get_default_checkpoint, tables |-> << >>,
                disk |-> AbsentFile, hist |-> 0, faults |-> 0 ]
    /\ interrupted = NoInterrupt
    /\ runs = 1
    /\ faults = 0
    /\ issued = 0
    /\ calls = 0
    /\ disconnects = 0
    /\ committed = Committed(_get_default_checkpoint, AbsentFile)
    /\ lastCall = NoCall
    /\ limiter = NewLimiter(MaxRate)

\* a type name of every branch of the mapping, in both cases, and the
\* sample values with the strings of at most one token
TypeNamesAsked ==
    { t \in OracleTypeNames :
        /\ t.base \in { "NUMBER", "TIMESTAMP", "VARCHAR2", "BLOB" }
        /\ t.precision \in { Null, 6 }
        /\ t.zone = "" }

ValuesAsked ==
    { v \in SampleValues : v.kind = "str" => Len(v.parts) <= 1 }

NextTypes ==
    \/ \E t \in TypeNamesAsked : TypeMapped(t)
    \/ \E v \in ValuesAsked : TypeInferred(v)
    \/ \E schema \in BOOLEAN : TypesWrite(schema)
    \/ TypesRequest

SpecTypes ==
    InitTypes /\ [][NextTypes]_vars

----------------------------------------------------------------------------
(* The command line: main()                                                *)
(*                                                                         *)
(* Here cfg is the configuration files of the working directory, by path,  *)
(* and disk the checkpoint files, by path.  A configuration file is absent *)
(* or names its sync.checkpoint_file.                                      *)

ConfigPaths ==
    { "config.yaml", "other.yaml" }

CheckpointPaths ==
    { "sync_checkpoint.json", "other_checkpoint.json" }

ConfigFiles ==
    [ exists : { TRUE }, checkpoint_file : CheckpointPaths ]
      \cup { [ exists |-> FALSE, checkpoint_file |-> "sync_checkpoint.json" ] }

CheckpointFiles ==
    { AbsentFile,
      [ state |-> "valid", data |-> SaveData(_get_default_checkpoint) ],
      [ state |-> "valid", data |-> ProgressCheckpoint ] }

\* the arguments argparse hands to main; --config defaults to config.yaml
Arguments ==
    [ config : ConfigPaths, full_sync : BOOLEAN, reset_checkpoint : BOOLEAN ]

\* main, lines 256-260: the checkpoint file of the reset branch, which
\* opens config.yaml whatever --config says
ResetFileSelected(files, args) ==
    IF files[args.config].exists THEN files[args.config].checkpoint_file
    ELSE "sync_checkpoint.json"

ResetFile(files, args) ==
    IF files["config.yaml"].exists THEN files["config.yaml"].checkpoint_file
    ELSE "sync_checkpoint.json"

MainCall(args, failed, ret) ==
    [ NoCall EXCEPT !.op = "main", !.arg = args, !.failed = failed,
                    !.ret = ret ]

\* main --reset-checkpoint, lines 255-265: CheckpointManager(checkpoint_file)
\* loads the file, reset() replaces the data and saves, main returns
MainReset(args, outcome) ==
    /\ pc = "main"
    /\ args.reset_checkpoint
    /\ outcome # "ok" => faults < MaxFaults
    /\ faults' = IF outcome = "ok" THEN faults ELSE faults + 1
    /\ ckpt' = SaveData(reset(_load(disk[ResetFile(cfg, args)])))
    /\ disk' = [ disk EXCEPT ![ResetFile(cfg, args)] =
                   SaveFile(@, reset(_load(@)), outcome) ]
    /\ pc' = "exited"
    /\ lastCall' = MainCall(args, outcome # "ok",
                            [ reset |-> ResetFile(cfg, args) ])
    /\ UNCHANGED << src, cfg, tables, full_sync, last_sync_value, total_count,
                    offset, records, chunk_i, current_table_sequence,
                    total_synced, current_table_id, current_table_row_count,
                    reads, inserts, subLog, pageInserted, run0, interrupted,
                    runs, issued, calls, disconnects, committed, limiter >>

\* main without --reset-checkpoint, lines 267-269: OracleToFeishuSync(
\* args.config) raises FileNotFoundError or loads the checkpoint file the
\* configuration names, and run(full_sync) is entered
MainSync(args) ==
    /\ pc = "main"
    /\ ~args.reset_checkpoint
    /\ IF cfg[args.config].exists
       THEN /\ ckpt' = _load(disk[cfg[args.config].checkpoint_file])
            /\ full_sync' = args.full_sync
            /\ pc' = "run"
       ELSE /\ pc' = "raised"
            /\ UNCHANGED << ckpt, full_sync >>
    /\ lastCall' = MainCall(args, ~cfg[args.config].exists,
                            [ reset |-> "none" ])
    /\ UNCHANGED << src, cfg, disk, tables, last_sync_value, total_count,
                    offset, records, chunk_i, current_table_sequence,
                    total_synced, current_table_id, current_table_row_count,
                    reads, inserts, subLog, pageInserted, run0, interrupted,
                    runs, faults, issued, calls, disconnects, committed,
                    limiter >>

InitMain ==
    /\ src = << 1 >>
    /\ cfg \in [ ConfigPaths -> ConfigFiles ]
    /\ disk \in [ CheckpointPaths -> CheckpointFiles ]
    /\ tables = << >>
    /\ ckpt = _get_default_checkpoint
    /\ pc = "main"
    /\ full_sync = FALSE
    /\ last_sync_value = Null
    /\ total_count = 0
    /\ offset = 0
    /\ records = << >>
    /\ chunk_i = 0
    /\ current_table_sequence = 1
    /\ total_synced = 0
    /\ current_table_id = Null
    /\ current_table_row_count = 0
    /\ reads = << >>
    /\ inserts = << >>
    /\ subLog = << >>
    /\ pageInserted = << >>
    /\ run0 = [ ckpt |-> _get_default_checkpoint, tables |-> << >>,
                disk |-> AbsentFile, hist |-> 0, faults |-> 0 ]
    /\ interrupted = NoInterrupt
    /\ runs = 1
    /\ faults = 0
    /\ issued = 0
    /\ calls = 0
    /\ disconnects = 0
    /\ committed = Committed(_get_default_checkpoint, AbsentFile)
    /\ lastCall = NoCall
    /\ limiter = NewLimiter(50)

NextMain ==
    \/ \E args \in Arguments, o \in { "ok", "fail", "torn" } :
         MainReset(args, o)
    \/ \E args \in Arguments : MainSync(args)

SpecMain ==
    InitMain /\ [][NextMain]_vars

----------------------------------------------------------------------------
(* Properties *)

Range(f) ==
    { f[k] : k \in 1..Len(f) }

\* rows present in some destination table
DestRows ==
    UNION { Range(tables[t].rows) : t \in 1..Len(tables) }

InRun ==
    pc \notin { "idle", "client" }

\* the cursor the run started from: none in full mode
RunStartCursor ==
    IF full_sync THEN Null ELSE run0.ckpt.last_sync_value

\* the rows that matched the run's filter when the count was taken
CountedRows ==
    Range(Candidates(src, FilterColumn(RunStartCursor, full_sync),
                     FilterValue(RunStartCursor, full_sync)))

\* sync values are distinct, not NULL and not 0
DistinctValues ==
    \A k \in 1..Len(src) :
        /\ Truthy(src[k])
        /\ k > 1 => src[k - 1] < src[k]

\* pages of the run that held rows, and checkpoint advances of the run
PagesRead ==
    Cardinality({ k \in 1..Len(reads) : Len(reads[k].rows) > 0 })

PagesAdvanced ==
    Len(ckpt.sync_history) - run0.hist

PageSizes ==
    [ k \in 1..Len(reads) |-> Len(reads[k].rows) ]

InsertSizes ==
    [ k \in 1..Len(inserts) |-> inserts[k].n ]

\* C1: a run that ends without error has inserted every source row that
\* matched its filter when the count was taken, whenever read_batch_size is
\* smaller than that count, in full and in incremental mode (stated for
\* sources whose sync values are distinct, non-null and non-zero).
NoRowSkipped ==
    (pc = "done" /\ cfg.read_batch_size < total_count /\ DistinctValues)
        => CountedRows \subseteq DestRows

\* C2: the cursor never leads the destination: every source row that matched
\* the run's filter and whose sync value is <= the checkpoint's
\* last_sync_value (in memory or persisted) is in the destination (stated
\* for sources whose sync values are distinct, non-null and non-zero).
CursorNeverLeads ==
    (InRun /\ DistinctValues) =>
        \A r \in CountedRows :
            \A cur \in { ckpt.last_sync_value, disk.data.last_sync_value } :
                (cur # Null /\ src[r] <= cur) => r \in DestRows

\* C3: after a process died between the last write of a page and the
\* checkpoint advance of that page, the first page of the next incremental
\* run is exactly the interrupted page, and no row of a page checkpointed
\* before it is read again (stated for runs whose only fault is that kill, on sources
\* whose sync values are distinct, non-null and non-zero).
ResumeRereadsInterruptedPage ==
    (interrupted.set /\ ~full_sync /\ faults = 1 /\ DistinctValues
       /\ Len(reads) >= 1)
        => /\ reads[1].rows = interrupted.page
           /\ Range(RowsOf(reads)) \cap Range(interrupted.earlier) = {}

CursorGe(new, old) ==
    old = Null \/ (new # Null /\ new >= old)

\* C4: a checkpoint advance never stores a last_sync_value older than the one
\* stored before it, nor a null one.
CursorMonotonic ==
    [][ (pc = "advance" /\ pc' \in { "read", "done" })
          => CursorGe(ckpt'.last_sync_value, ckpt.last_sync_value) ]_vars

\* C5: within a run the checkpoint is advanced once per page, only when all
\* rows of the page have been inserted, and before the next page is read; a
\* page whose write raised is not advanced.
WriteThenAdvance ==
    InRun =>
        /\ PagesAdvanced \in { PagesRead - 1, PagesRead }
        /\ PagesAdvanced >= 0
        /\ (PagesRead > 0 /\ PagesAdvanced = PagesRead)
               => pageInserted = records
        /\ pc = "read" => PagesAdvanced = PagesRead
        /\ pc \in { "write", "advance" } => PagesAdvanced = PagesRead - 1
        /\ (pc = "failed" /\ pageInserted # records)
               => PagesAdvanced = PagesRead - 1

\* a chunk write raised on the second page, after a chunk of it was written
WriteThenAdvanceWitness ==
    /\ pc = "failed"
    /\ PagesRead >= 2
    /\ Len(pageInserted) > 0
    /\ Len(pageInserted) < Len(records)
    /\ PagesAdvanced = PagesRead - 1

\* C6: with a source schema, a shard is created before a sub-batch is written
\* exactly when current_table_row_count + len(sub-batch) exceeds
\* max_rows_per_table, and the sub-batch then goes to the new shard.
RotationExactlyOnOverflow ==
    \A k \in 1..Len(subLog) :
        LET e == subLog[k]
        IN  (e.schema /\ e.done) =>
              /\ e.created \in { 0, 1 }
              /\ e.created = 1 <=> e.pre + e.len > cfg.max_rows_per_table
              /\ e.seqAdded = e.created
              /\ e.created = 1 => e.target = e.shards

\* a sub-batch of a later call rotates away from a partly filled shard
RotationWitness ==
    \E k \in 1..Len(subLog) :
        /\ subLog[k].schema /\ subLog[k].done
        /\ subLog[k].created = 1
        /\ subLog[k].pre > 0
        /\ subLog[k].pre < cfg.max_rows_per_table
        /\ calls >= 2

\* C7: no shard ever holds more than max_rows_per_table rows, with a schema
\* or with a sample row only (stated here for limits no sub-batch exceeds).
ShardCapacity ==
    cfg.max_rows_per_table >= BATCH_CREATE_LIMIT =>
        \A t \in 1..Len(tables) :
            Len(tables[t].rows) <= cfg.max_rows_per_table

\* C8: the end-to-end scenario, run from an empty checkpoint without faults:
\* pages of 1000, 1000 and 500 rows, five inserts of 500 rows, shards 001
\* with 2000 rows and 002 with 500, 2500 records synced, sequence 2.
EndToEndScenario ==
    (cfg = ScenarioConfig /\ Len(src) = 2500 /\ runs = 1 /\ faults = 0
       /\ pc = "done")
        => /\ PageSizes = << 1000, 1000, 500 >>
           /\ InsertSizes = << 500, 500, 500, 500, 500 >>
           /\ Len(tables) = 2
           /\ tables[1].name = 1 /\ Len(tables[1].rows) = 2000
           /\ tables[2].name = 2 /\ Len(tables[2].rows) = 500
           /\ ckpt.total_records_synced = 2500
           /\ ckpt.current_table_sequence = 2

\* C9: a full-sync run resets the checkpoint before anything is read, passes
\* no cursor filter to the count or to any page read, and processes every
\* source row from the first.
FullSyncIgnoresCheckpoint ==
    (InRun /\ full_sync) =>
        /\ pc = "count" => ckpt = SaveData(_get_default_checkpoint)
        /\ \A k \in 1..Len(reads) :
               ~reads[k].sync_column /\ reads[k].value = Null
        /\ pc \in { "read", "write", "advance", "done" }
               => total_count = Len(src)
        /\ pc = "done" =>
               /\ RowsOf(reads) = RowIds(src)
               /\ total_synced = Len(src)
               /\ ckpt.total_records_synced = Len(src)
               /\ Range(RowIds(src)) \subseteq DestRows

\* a full sync over a checkpoint that held a cursor, completed in two pages
FullSyncWitness ==
    /\ full_sync
    /\ pc = "done"
    /\ Truthy(run0.ckpt.last_sync_value)
    /\ PagesRead >= 2

\* C10: in incremental mode the filter sync_column > last_sync_value is
\* applied to the count and to the first page read whenever the checkpoint
\* the run started from holds a cursor that is not null, for every cursor
\* value including 0; without a cursor no filter is applied.
IncrementalFilterWheneverCursor ==
    (~full_sync /\ pc \in { "read", "write", "advance" }) =>
        /\ total_count =
             get_total_count(src, RunStartCursor # Null, RunStartCursor)
        /\ Len(reads) >= 1 =>
               /\ reads[1].sync_column <=> RunStartCursor # Null
               /\ reads[1].value = RunStartCursor

\* C11: a run whose count is 0 ends without error, reads no page, creates no
\* shard and inserts no row; in incremental mode the checkpoint is unchanged
\* in memory and on disk.  A run that goes on to the page loop counted rows.
ZeroCountRun ==
    /\ (pc = "done" /\ total_count = 0) =>
          /\ reads = << >>
          /\ inserts = << >>
          /\ tables = run0.tables
          /\ total_synced = 0
          /\ ~full_sync => (ckpt = run0.ckpt /\ disk = run0.disk)
    /\ pc \in { "read", "write", "advance" } => total_count > 0

\* an incremental run over a source it has already copied
ZeroCountWitness ==
    /\ pc = "done"
    /\ total_count = 0
    /\ ~full_sync
    /\ Len(src) > 0
    /\ run0.ckpt.total_records_synced = Len(src)

\* C12: when the source or the destination raises, the run ends failed, the
\* checkpoint in memory and on disk is the one the last completed
\* update_sync_progress (or the start of the run) left, and the failed run
\* makes no further step: nothing is retried.
AbortLeavesCheckpoint ==
    /\ [](pc = "failed" => (ckpt = committed.ckpt /\ disk = committed.disk))
    /\ [][pc = "failed" => pc' = "idle"]_vars

\* a write raised on a later page, after a page had been checkpointed
AbortWitness ==
    /\ pc = "failed"
    /\ PagesAdvanced >= 1
    /\ PagesRead > PagesAdvanced
    /\ ckpt.last_sync_value # Null
    /\ disk.state = "valid"

\* C15: a checkpoint advance whose save() fails does not abort the run: the
\* pump goes on to the next page (or ends normally) and the checkpoint in
\* memory holds the advanced cursor, counter, shard pointers and offset.
SaveFailureTolerated ==
    [][ (pc = "advance" /\ pc' # "idle" /\ faults' # faults) =>
          /\ pc' = IF offset + Len(records) < total_count
                   THEN "read" ELSE "done"
          /\ ckpt'.last_sync_value = src[records[Len(records)]]
          /\ ckpt'.total_records_synced =
                 ckpt.total_records_synced + Len(records)
          /\ ckpt'.current_table_id = current_table_id
          /\ ckpt'.current_table_sequence = current_table_sequence
          /\ ckpt'.last_batch_offset = offset + Len(records)
          /\ Len(ckpt'.sync_history) = Len(ckpt.sync_history) + 1 ]_vars

\* the pump is writing the page that follows a failed save
SaveFailureWitness ==
    /\ pc = "write"
    /\ PagesAdvanced >= 1
    /\ faults = 1
    /\ runs = 1
    /\ _load(disk) # ckpt

\* C18: batch_create_records with more than 500 records raises before the
\* rate limiter is called and before a request is sent, and inserts nothing;
\* with at most 500 records a successful call has sent one insert request
\* that holds all of them, in order.
OversizeInsertRejected ==
    lastCall.op = "insert" =>
        LET recs == [ k \in 1..lastCall.n |-> lastCall.first + k - 1 ]
        IN  IF lastCall.n > BATCH_CREATE_LIMIT
            THEN /\ lastCall.failed
                 /\ lastCall.rl = 0
                 /\ Len(inserts) = lastCall.ins0
                 /\ Range(recs) \cap DestRows = {}
            ELSE /\ lastCall.rl = 1
                 /\ lastCall.failed => Len(inserts) = lastCall.ins0
                 /\ ~lastCall.failed =>
                      /\ Len(inserts) = lastCall.ins0 + 1
                      /\ inserts[Len(inserts)].rows = recs
                      /\ inserts[Len(inserts)].table = lastCall.table

\* an insert of 501 records was refused after an earlier call had succeeded
OversizeInsertWitness ==
    /\ lastCall.op = "insert"
    /\ lastCall.n = BATCH_CREATE_LIMIT + 1
    /\ lastCall.failed
    /\ calls >= 2
    /\ Len(inserts) >= 1

\* C19: every insert request write_records_with_table_management sends holds
\* at most 500 rows; when the call returns, the requests of the call hold
\* the input rows once each in input order and 'written' is the input length.
InsertsCappedAndComplete ==
    /\ \A k \in 1..Len(inserts) : inserts[k].n <= BATCH_CREATE_LIMIT
    /\ (lastCall.op = "write" /\ ~lastCall.failed) =>
          /\ RowsOf(SubSeq(inserts, lastCall.ins0 + 1, Len(inserts))) =
                 [ k \in 1..lastCall.n |-> lastCall.first + k - 1 ]
          /\ lastCall.written = lastCall.n

\* a list of 501 records went out as two requests
InsertsCappedWitness ==
    /\ lastCall.op = "write"
    /\ ~lastCall.failed
    /\ lastCall.n = BATCH_CREATE_LIMIT + 1
    /\ Len(inserts) = lastCall.ins0 + 2

\* C20: once the reader is built, disconnect() has been called exactly once
\* when run() has returned or raised, and not before: after completion, the
\* early return on a zero count, and a failure in connect, schema fetch,
\* count, read or write.
DisconnectOnEveryExit ==
    /\ pc \in { "done", "failed" } => disconnects = 1
    /\ pc \in { "count", "read", "write", "advance" } => disconnects = 0

\* the schema fetch of a full-sync run raised
DisconnectWitness ==
    /\ pc = "failed"
    /\ full_sync
    /\ reads = << >>
    /\ ckpt.last_sync_time # Null
    /\ disconnects = 1

\* C13: sync_history holds the latest entries in the order of the calls:
\* after N calls on an empty history it has N entries up to 100 and exactly
\* 100 after more, and its newest entries are the latest calls, oldest first.
HistoryBound ==
    (pc = "manager" /\ HasKey(ckpt, "sync_history")) =>
        LET h == ckpt.sync_history
            m == Min(calls, HISTORY_LIMIT)
        IN  /\ Len(h) = Min(run0.hist + calls, HISTORY_LIMIT)
            /\ \A j \in 1..m :
                   h[Len(h) - m + j].last_value = calls - m + j

\* more than 100 calls were made on an empty history
HistoryBoundWitness ==
    /\ pc = "manager"
    /\ run0.hist = 0
    /\ calls > HISTORY_LIMIT
    /\ Len(ckpt.sync_history) = HISTORY_LIMIT
    /\ ckpt.sync_history[1].last_value = calls - HISTORY_LIMIT + 1

\* C14: on one manager every update_sync_progress call adds exactly
\* records_synced to total_records_synced, so the counter never decreases
\* for non-negative sizes; a step that lowers it is a reset(), which sets 0.
TotalNeverDecreases ==
    [][ /\ calls' = calls + 1 =>
              /\ ckpt'.total_records_synced =
                     ckpt.total_records_synced + cfg.read_batch_size
              /\ ckpt'.total_records_synced >= ckpt.total_records_synced
        /\ ( /\ HasKey(ckpt, "total_records_synced")
             /\ HasKey(ckpt', "total_records_synced")
             /\ ckpt'.total_records_synced < ckpt.total_records_synced )
              => (lastCall'.op = "reset" /\ ckpt'.total_records_synced = 0)
      ]_vars

\* two pages were reported on a checkpoint that already carried a count
TotalWitness ==
    /\ pc = "manager"
    /\ calls >= 2
    /\ cfg.read_batch_size > 0
    /\ run0.hist > 0
    /\ ckpt.total_records_synced =
           run0.ckpt.total_records_synced + calls * cfg.read_batch_size

\* C16: a manager built on any file returns the file's checkpoint when the
\* file is valid and the defaults when it is absent or corrupt, and no later
\* update_sync_progress or get_last_sync_value call raises, whatever the
\* file held.
LoadNeverFails ==
    /\ pc # "raised"
    /\ (calls = 0 /\ lastCall.op = "none") =>
          ckpt = IF disk.state = "valid" THEN disk.data
                 ELSE _get_default_checkpoint

PassesIn(w) ==
    { i \in 1..Len(limiter.passes) : limiter.passes[i].window = w }

\* C21: for max_requests_per_second >= 1 at most that many requests pass
\* in one tracked one-second window, each inside its window; a request that
\* arrives when the window's count has reached the limit sleeps until the
\* window's second is over, starts a new window there and goes out.
RateLimited ==
    /\ [](\A i \in 1..Len(limiter.passes) :
            LET p == limiter.passes[i]
            IN  /\ Cardinality(PassesIn(p.window))
                       <= limiter.max_requests_per_second
                /\ p.window <= p.at
                /\ p.at < p.window + TicksPerSecond)
    /\ [][ ( /\ Len(limiter'.passes) = Len(limiter.passes) + 1
             /\ limiter._request_count >= limiter.max_requests_per_second
             /\ limiter.now - limiter._last_request_time < TicksPerSecond )
           => /\ limiter'.now >= limiter._last_request_time + TicksPerSecond
              /\ limiter'._last_request_time = limiter'.now
              /\ limiter'._request_count = 1
              /\ limiter'.passes[Len(limiter'.passes)].window = limiter'.now
              /\ limiter'.passes[Len(limiter'.passes)].slept > 0
         ]_vars

\* two requests filled a window and the third slept into the next one
RateLimitedWitness ==
    /\ pc = "limiter"
    /\ limiter.max_requests_per_second = 2
    /\ Len(limiter.passes) >= 3
    /\ \E i \in 3..Len(limiter.passes) :
          /\ limiter.passes[i].slept > 0
          /\ limiter.passes[i - 1].window = limiter.passes[i - 2].window
          /\ limiter.passes[i].window =
                 limiter.passes[i - 1].window + TicksPerSecond

\* numeric and temporal source types, by the name of the type
IsNumericType(t) ==
    t.base \in { "NUMBER", "INTEGER", "FLOAT", "BINARY_FLOAT",
                 "BINARY_DOUBLE", "DECIMAL", "NUMERIC" }

IsTemporalType(t) ==
    t.base \in { "DATE", "TIMESTAMP" }

\* C22: map_oracle_type_to_feishu, in any letter case, returns Number for a
\* numeric type, Date for DATE and for TIMESTAMP in every precision and zone
\* variant, and Text for every other type.
TypeMapping ==
    lastCall.op = "map_oracle_type_to_feishu" =>
        lastCall.ret = IF IsNumericType(lastCall.arg) THEN FIELD_TYPE_NUMBER
                       ELSE IF IsTemporalType(lastCall.arg)
                            THEN FIELD_TYPE_DATE
                       ELSE FIELD_TYPE_TEXT

\* the whole string is an ISO-8601 date or date-time
ParsesAsIsoDate(parts) ==
    parts \in { << "DATE" >>, << "DATE", "T", "TIME" >>,
                << "DATE", "SPACE", "TIME" >> }

\* C23: _infer_field_type returns Text for None, Checkbox for a boolean,
\* Number for a numeric value that is not a boolean, Date for a string of at
\* least 10 characters that parses as an ISO-8601 date, and Text for every
\* other string or value.
ValueInference ==
    lastCall.op = "_infer_field_type" =>
        LET value == lastCall.arg
        IN  lastCall.ret =
              IF value = None THEN FIELD_TYPE_TEXT
              ELSE IF value.kind = "bool" THEN FIELD_TYPE_CHECKBOX
              ELSE IF value.kind \in { "int", "float", "decimal" }
                   THEN FIELD_TYPE_NUMBER
              ELSE IF /\ value.kind = "str"
                      /\ StrLen(value.parts) >= 10
                      /\ ParsesAsIsoDate(value.parts)
                   THEN FIELD_TYPE_DATE
              ELSE FIELD_TYPE_TEXT

\* C24: _validate_sql_identifier accepts a string exactly when it starts
\* with a letter, goes on with letters, digits, underscores and dollar signs
\* only, and has at most 30 characters; it raises for every other string.
IdentifierValidation ==
    lastCall.op = "_validate_sql_identifier" =>
        LET identifier == lastCall.arg
        IN  lastCall.ret <=>
              /\ Len(identifier) > 0
              /\ IsLetter(identifier[1].c)
              /\ \A i \in 1..Len(identifier) : IsWordChar(identifier[i].c)
              /\ IdentifierLength(identifier) <= 30

\* C25: _prepare_sync_value_for_query returns None for None, the UTC
\* datetime of the epoch-millisecond value for a numeric value when the
\* column's type is DATE or any TIMESTAMP variant, and the value unchanged
\* for another column type and for a value that is a datetime or a string.
SyncValuePrepared ==
    lastCall.op = "_prepare_sync_value_for_query" =>
        LET column_type == lastCall.arg.column_type
            value       == lastCall.arg.value
        IN  lastCall.ret =
              IF value = None THEN None
              ELSE IF /\ column_type # None
                      /\ IsTemporalType(column_type)
                      /\ value.kind \in { "int", "float" }
                   THEN Datetime(value.v * 1000, "UTC")
              ELSE value

\* a millisecond cursor was converted for a TIMESTAMP(6) WITH TIME ZONE column
SyncValuePreparedWitness ==
    /\ lastCall.op = "_prepare_sync_value_for_query"
    /\ lastCall.arg.column_type =
           TypeName("TIMESTAMP", 6, "WITH TIME ZONE", TRUE)
    /\ lastCall.arg.value = IntValue(7)
    /\ lastCall.ret = Datetime(7000, "UTC")

\* C26: in a write call without a source schema, a sub-batch that would
\* take the current shard over max_rows_per_table increments the sequence and
\* creates a new shard, which becomes current; the sequence is incremented
\* exactly when a shard was created.
NoSchemaRotation ==
    \A k \in 1..Len(subLog) :
        LET e == subLog[k]
        IN  (~e.schema /\ e.done) =>
              /\ e.pre + e.len > cfg.max_rows_per_table =>
                     (e.created = 1 /\ e.target = e.shards)
              /\ e.seqAdded = 1 <=> e.created = 1

\* C28: with the source unchanged, an incremental run that follows a run
\* which completed successfully counts no matching row and writes nothing to
\* the destination, whatever the sync column holds.
QuiescenceAfterSuccess ==
    (runs >= 2 /\ faults = 0 /\ ~full_sync) =>
        (total_count = 0 /\ inserts = << >>)

\* C29: a save() that fails, or a process that dies while it writes the
\* file, leaves the file with the checkpoint of the last successful save:
\* once the file is valid, every step leaves it valid, unchanged or holding
\* the checkpoint just saved.
CheckpointFileDurable ==
    [][ disk.state = "valid" =>
          /\ disk'.state = "valid"
          /\ disk' = disk \/ disk'.data = ckpt'
      ]_vars

\* C30: over any sequence of runs no two shards are created with the same
\* sequence number, hence the same name.
ShardNamesUnique ==
    \A i \in 1..Len(tables) : \A j \in 1..Len(tables) :
        i # j => tables[i].name # tables[j].name

\* C27: the pages of one run are read in increasing order of the sync
\* column and do not overlap: the rows of a page are ascending, every value
\* of a page is >= every value of the page before it, and no source row is
\* in two pages of the run.
PagesInCursorOrder ==
    \A k \in 1..Len(reads) :
        LET page == reads[k].rows
        IN  /\ \A i \in 1..Len(page) : \A j \in 1..Len(page) :
                  i < j => SortsBefore(src[page[i]], src[page[j]])
            /\ k > 1 =>
                  \A a \in Range(reads[k - 1].rows) : \A b \in Range(page) :
                      SortsBefore(src[a], src[b])
            /\ \A h \in 1..Len(reads) :
                  h # k => Range(reads[h].rows) \cap Range(page) = {}

\* the number of tables when the sub-batch loop of the last write began,
\* that is after lines 586-600
TablesAtLoopStart(log) ==
    log[1].shards - log[1].created

\* C31: a write that finds no current shard first creates exactly one
\* shard, named by the sequence it was given, with fields typed from the
\* source schema when one is supplied and from the sample row otherwise,
\* makes it current and has a row-count cache of 0 when the sub-batch loop
\* begins; a write that finds a current shard creates none before the loop,
\* and ensure_table_exists leaves the client as it is and returns the
\* current id.
InitialShardCreation ==
    /\ [] (current_table_id # Null =>
             \A sequence_number \in 1..2 :
                 /\ ensure_table_exists(ClientState(Null), sequence_number)
                      = ClientState(Null)
                 /\ ensure_table_exists(ClientState(Null),
                                        sequence_number).tid
                      = current_table_id)
    /\ [][ (calls' = calls + 1 /\ lastCall'.op = "write" /\ subLog' # << >>)
           => IF current_table_id = Null
              THEN /\ TablesAtLoopStart(subLog') = Len(tables) + 1
                   /\ tables'[Len(tables) + 1].name = current_table_sequence
                   /\ tables'[Len(tables) + 1].fields =
                        FieldsTyped(IF subLog'[1].schema THEN "schema"
                                    ELSE "sample")
                   /\ subLog'[1].current = Len(tables) + 1
                   /\ subLog'[1].pre = 0
              ELSE /\ TablesAtLoopStart(subLog') = Len(tables)
                   /\ subLog'[1].current = current_table_id
         ]_vars

\* a first write without a schema has created shard 1 and written to it
InitialShardCreationWitness ==
    /\ pc = "client"
    /\ cfg.base_table_id = Null
    /\ calls = 1
    /\ lastCall.op = "write"
    /\ ~lastCall.failed
    /\ Len(tables) = 1
    /\ tables[1].name = 1
    /\ tables[1].fields = FieldsTyped("sample")
    /\ Len(tables[1].rows) = 1
    /\ current_table_id = 1

\* C32: create_fields_if_needed sends a create-field request only for
\* names of the sample record that the table lacks, and a second call with
\* the same record, after a first call all of whose requests succeeded,
\* sends none.
FieldCreationIdempotent ==
    [][ (pc = "fields" /\ calls' = calls + 1 /\ ~lastCall'.failed) =>
          /\ \A k \in 1..lastCall'.n :
                 lastCall'.ret[k] \notin NamesOf(tables[1].fields)
          /\ ( /\ lastCall.op = "fields"
               /\ ~lastCall.failed
               /\ lastCall.written = lastCall.n
               /\ lastCall'.arg = lastCall.arg ) => lastCall'.n = 0
      ]_vars

\* an identifier of the source: a letter, then letters, digits, underscores
\* and dollar signs, at most 30 characters in all
IsSqlIdentifier(identifier) ==
    /\ Len(identifier) > 0
    /\ IsLetter(identifier[1].c)
    /\ \A i \in 1..Len(identifier) : IsWordChar(identifier[i].c)
    /\ IdentifierLength(identifier) <= 30

ReaderOps ==
    { "get_table_columns", "get_table_schema", "get_total_count",
      "read_batch", "get_max_value" }

\* C33: get_table_schema, get_table_columns, get_total_count, read_batch
\* and get_max_value raise ValueError and execute no statement when one of
\* the identifiers they are given is not an identifier; the statements
\* they execute carry the cursor value, the offset and the limit as bound
\* parameters and nothing but the given identifiers in their text.
IdentifiersValidatedFirst ==
    lastCall.op \in ReaderOps =>
        LET given == lastCall.arg.identifiers
            r     == lastCall.ret
        IN  /\ (\E i \in 1..Len(given) : ~IsSqlIdentifier(given[i])) =>
                   r.raised /\ r.executed = << >>
            /\ \A k \in 1..Len(r.executed) :
                   /\ Range(r.executed[k].identifiers) \subseteq Range(given)
                   /\ r.executed[k].query = "page" =>
                          { "max_row", "min_row" } \subseteq
                              r.executed[k].binds
                   /\ r.executed[k].query = "count" =>
                          (Len(r.executed[k].identifiers) = 2 <=>
                              r.executed[k].binds = { "last_value" })

\* what a run did: its reads, its writes, the cursor and the shard state
\* it ended with
RunObserved(st) ==
    [ reads     |-> st.reads,
      writes    |-> st.ins,
      cursor    |-> st.data.last_sync_value,
      table_id  |-> st.tid,
      sequence  |-> st.seq,
      shards    |-> st.tables,
      saved_id  |-> st.data.current_table_id,
      saved_seq |-> st.data.current_table_sequence ]

\* the same checkpoint with other diagnostic fields
WithDiagnostics(checkpoint, batch_offset, history) ==
    [ checkpoint EXCEPT !.last_batch_offset = batch_offset,
                        !.sync_history = history ]

\* C34: a run that ends without an exception does what run() does from the
\* checkpoint its process loaded, and run() from a checkpoint that differs
\* from it in last_batch_offset and sync_history only performs the same
\* reads and the same writes and ends with the same cursor and the same
\* shard state.
ResumptionByCursorOnly ==
    (pc = "done" /\ faults = run0.faults) =>
        /\ RunObserved(run(run0.ckpt, run0.tables, full_sync)) =
             [ reads     |-> reads,
               writes    |-> inserts,
               cursor    |-> ckpt.last_sync_value,
               table_id  |-> current_table_id,
               sequence  |-> current_table_sequence,
               shards    |-> tables,
               saved_id  |-> ckpt.current_table_id,
               saved_seq |-> ckpt.current_table_sequence ]
        /\ \A batch_offset \in 0..MaxRows :
               \A history \in { << >>, run0.ckpt.sync_history } :
                   RunObserved(run(WithDiagnostics(run0.ckpt, batch_offset,
                                                   history),
                                   run0.tables, full_sync))
                     = RunObserved(run(run0.ckpt, run0.tables, full_sync))

\* a second, incremental run took up a checkpoint with an offset and a
\* history, read a page and wrote it
ResumptionByCursorOnlyWitness ==
    /\ pc = "done"
    /\ faults = run0.faults
    /\ runs = 2
    /\ ~full_sync
    /\ run0.ckpt.last_batch_offset > 0
    /\ Len(run0.ckpt.sync_history) > 0
    /\ Len(reads) > 0
    /\ Len(reads[1].rows) > 0
    /\ Len(inserts) > 0

\* the run is in its page loop
InLoop(at) ==
    at \in { "read", "write", "advance" }

\* what is left of the loop: pages to go, steps to go in the pass, rows to
\* go in the page
LoopMeasure ==
    << total_count - offset,
       IF pc = "read" THEN 2 ELSE IF pc = "write" THEN 1 ELSE 0,
       IF pc = "write" THEN Len(records) - chunk_i ELSE 0 >>

\* lexicographic order of two measures
MeasureLess(a, b) ==
    \/ a[1] < b[1]
    \/ a[1] = b[1] /\ a[2] < b[2]
    \/ a[1] = b[1] /\ a[2] = b[2] /\ a[3] < b[3]

\* C35: the page loop ends.  A run makes at most
\* ceil(total_count / read_batch_size) page reads; the offset grows with
\* every pass that completes; an empty page ends the loop, also below the
\* counted total; and every step that stays in the loop brings it nearer
\* to its end: what is left of the loop is never negative and decreases.
PumpLoopTerminates ==
    /\ [] (Len(reads) * cfg.read_batch_size
             < total_count + cfg.read_batch_size)
    /\ [] (InLoop(pc) => /\ LoopMeasure[1] >= 0
                         /\ LoopMeasure[3] >= 0
                         /\ pc = "read" => offset < total_count)
    /\ [][ /\ (pc = "advance" /\ pc' # "idle") => offset' > offset
           /\ (pc = "read" /\ pc' = "write") => Len(records') > 0
           /\ (pc = "read" /\ Len(reads') > Len(reads)
                 /\ Len(reads'[Len(reads')].rows) = 0) => pc' = "done"
           /\ (InLoop(pc) /\ InLoop(pc')) =>
                  MeasureLess(LoopMeasure', LoopMeasure)
         ]_vars

\* an empty page has ended a run whose offset is below the counted total
PumpLoopTerminatesWitness ==
    /\ pc = "done"
    /\ Len(reads) > 1
    /\ Len(reads[Len(reads)].rows) = 0
    /\ offset > 0
    /\ offset < total_count

\* rows of the insert requests a process sent
RECURSIVE RowsInserted(_)
RowsInserted(ins) ==
    IF Len(ins) = 0 THEN 0
    ELSE RowsInserted(SubSeq(ins, 1, Len(ins) - 1)) + ins[Len(ins)].n

\* C36 as stated: on a run that ends without error the counter of the
\* checkpoint has grown, from its value at the start of the run, by the
\* number of rows the run inserted, which is the run's total_synced.
CounterAgreesWithDestination ==
    pc = "done" =>
        /\ ckpt.total_records_synced - run0.ckpt.total_records_synced
             = total_synced
        /\ RowsInserted(inserts) = total_synced

\* C36, amended: the counter is measured from the checkpoint the run works
\* from, which in full-sync mode is the fresh checkpoint written by the
\* reset at the start of the run (counter 0).
CounterAgreesSinceReset ==
    pc = "done" =>
        /\ ckpt.total_records_synced
             - (IF full_sync THEN 0 ELSE run0.ckpt.total_records_synced)
             = total_synced
        /\ RowsInserted(inserts) = total_synced

\* a full-sync run that started from a counter above 0 has written rows
CounterAgreesSinceResetWitness ==
    /\ pc = "done"
    /\ full_sync
    /\ run0.ckpt.total_records_synced > 0
    /\ total_synced > 0
    /\ ckpt.total_records_synced = total_synced

\* an incremental run that started from a counter above 0 has written rows
CounterAgreesIncrementalWitness ==
    /\ pc = "done"
    /\ ~full_sync
    /\ run0.ckpt.total_records_synced > 0
    /\ total_synced > 0

\* C37: an epoch-millisecond value converted to a UTC datetime as
\* _convert_timestamp_to_date does, and back to integer milliseconds as
\* read_batch does, is the value it was.
MillisecondRoundTrip ==
    lastCall.op = "round_trip" => lastCall.ret.ms = lastCall.arg

\* the datetime is the exact one: t milliseconds are 1000 t microseconds
MillisecondToDatetimeExact ==
    lastCall.op = "round_trip" =>
        Datetime(lastCall.ret.micros, "UTC")
          = _convert_timestamp_to_date(lastCall.arg)

\* a step of main --reset-checkpoint whose save succeeded
ResetStep ==
    /\ lastCall'.op = "main"
    /\ lastCall'.arg.reset_checkpoint
    /\ ~lastCall'.failed

\* nothing of the source or of the destination is touched, no reader and
\* no client is built
NoSyncPerformed ==
    UNCHANGED << src, tables, reads, inserts, subLog, pageInserted,
                 current_table_id, current_table_row_count, disconnects,
                 issued, limiter >>

\* C38: main --reset-checkpoint resets the checkpoint file named by the
\* configuration selected with --config, leaves every other checkpoint file
\* alone, and connects to nothing, reads nothing and writes nothing to the
\* destination before it exits.
ResetAndExit ==
    [][ResetStep /\ cfg[lastCall'.arg.config].exists =>
          /\ pc' = "exited"
          /\ disk'[ResetFileSelected(cfg, lastCall'.arg)]
               = [ state |-> "valid",
                   data  |-> SaveData(_get_default_checkpoint) ]
          /\ \A f \in CheckpointPaths
                     \ { ResetFileSelected(cfg, lastCall'.arg) } :
               disk'[f] = disk[f]
          /\ NoSyncPerformed]_vars

\* what the code does: the file reset is the one config.yaml names, or
\* sync_checkpoint.json when there is no config.yaml
ResetOfDefaultConfiguration ==
    [][ResetStep =>
          /\ pc' = "exited"
          /\ disk'[ResetFile(cfg, lastCall'.arg)]
               = [ state |-> "valid",
                   data  |-> SaveData(_get_default_checkpoint) ]
          /\ \A f \in CheckpointPaths \ { ResetFile(cfg, lastCall'.arg) } :
               disk'[f] = disk[f]
          /\ NoSyncPerformed]_vars

\* the attributes of the client and what it has sent
ClientAttributes ==
    << tables, current_table_id, current_table_row_count, limiter, inserts >>

====
